---- MODULE Spec2Model ----
(***************************************************************************)
(* A model of the animator controller of bevy_animator_controller:         *)
(* Parameters (parameters.rs), AnimationLayer (layer.rs) and               *)
(* AnimatorController (controller.rs).                                     *)
(*                                                                         *)
(* Time is counted in whole units (one unit = 0.25 s in the examples), so  *)
(* f32 sums and comparisons of the modelled values are exact.  A blend     *)
(* weight is the pair <<num, den>> standing for num / den.  A HashMap is   *)
(* the set of its <<key, value>> entries, an Option the set of at most one *)
(* value, an Arc<RwLock<Vec<SoaTransform>>> buffer the pair that names its *)
(* allocation: <<layer index, state name>> or <<layer index, BlendOut>>.   *)
(***************************************************************************)
EXTENDS Integers, Sequences, FiniteSets, TLC

VARIABLES
    layers,              \* AnimatorController.layers
    parameters,          \* AnimatorController.parameters
    final_blending_job,  \* the layer list of AnimatorController.final_blending_job
    skeleton,            \* AnimatorController.skeleton: the parent of each joint
    blending_output,     \* what the final job's output buffer holds
    bone_trans,          \* AnimatorController.bone_trans
    spine_trans,         \* AnimatorController.spine_trans
    elapsed,             \* the host's clock, Time::elapsed_secs
    last                 \* history: what the last call did and observed

vars == <<layers, parameters, final_blending_job, skeleton, blending_output,
          bone_trans, spine_trans, elapsed, last>>

\* What the host's calls between updates leave alone besides the layers,
\* the store and the final job.
readout == <<skeleton, blending_output, bone_trans, spine_trans, elapsed>>

\* Largest delta of one tick, in time units.
MaxDt == 1
\* add_layer is modelled while the controller holds fewer layers than this.
MaxLayers == 2

---------------------------------------------------------------------------
\* HashMap and Option

MapGet(m, k) == {e[2] : e \in {x \in m : x[1] = k}}

MapPut(m, k, v) == {x \in m : x[1] # k} \cup {<<k, v>>}

MapHas(m, k) == MapGet(m, k) # {}

The(s) == CHOOSE x \in s : TRUE

---------------------------------------------------------------------------
\* Parameters (parameters.rs)

ParametersNew == [bools |-> {}, floats |-> {}, ints |-> {}, triggers |-> {}]

get_bool(p, name) == MapGet(p.bools, name)

get_float(p, name) == MapGet(p.floats, name)

get_int(p, name) == MapGet(p.ints, name)

get_trigger(p, name) == IF MapHas(p.triggers, name) THEN The(MapGet(p.triggers, name)) ELSE FALSE

set_bool(p, name, value) == [p EXCEPT !.bools = MapPut(@, name, value)]

set_float(p, name, value) == [p EXCEPT !.floats = MapPut(@, name, value)]

set_int(p, name, value) == [p EXCEPT !.ints = MapPut(@, name, value)]

set_trigger(p, name) == [p EXCEPT !.triggers = MapPut(@, name, TRUE)]

reset_triggers(p) == [p EXCEPT !.triggers = {}]

---------------------------------------------------------------------------
\* Transitions and conditions (layer.rs)

CondBool(name, value) == [kind |-> "Bool", name |-> name, bval |-> value, val |-> 0, cmp |-> "Equals"]

CondFloat(name, value, cmp) == [kind |-> "Float", name |-> name, bval |-> FALSE, val |-> value, cmp |-> cmp]

CondInt(name, value, cmp) == [kind |-> "Int", name |-> name, bval |-> FALSE, val |-> value, cmp |-> cmp]

CondTrigger(name) == [kind |-> "Trigger", name |-> name, bval |-> FALSE, val |-> 0, cmp |-> "Equals"]

Transition(to, duration, conditions) ==
    [to_state |-> to, duration |-> duration, conditions |-> conditions,
     has_exit_time |-> FALSE, exit_time |-> 0]

\* A transition that declares an exit time.
TransitionExit(to, duration, conditions, exit_time) ==
    [to_state |-> to, duration |-> duration, conditions |-> conditions,
     has_exit_time |-> TRUE, exit_time |-> exit_time]

\* The modelled floats lie on a grid much coarser than f32::EPSILON, so
\* |a - b| < EPSILON is a = b.
CompareFloat(a, b, cmp) ==
    CASE cmp = "Greater" -> a > b
      [] cmp = "Less" -> a < b
      [] cmp = "Equals" -> a = b
      [] cmp = "NotEqual" -> a # b

CompareInt(a, b, cmp) ==
    CASE cmp = "Greater" -> a > b
      [] cmp = "Less" -> a < b
      [] cmp = "Equals" -> a = b
      [] cmp = "NotEqual" -> a # b

\* Mutant of evaluate_condition: NotEqual holds of a missing number.
evaluate_condition_lenient(c, p) ==
    CASE c.kind = "Bool" -> get_bool(p, c.name) = {c.bval}
      [] c.kind = "Float" ->
            LET v == get_float(p, c.name)
            IN  IF v # {} THEN CompareFloat(The(v), c.val, c.cmp) ELSE c.cmp = "NotEqual"
      [] c.kind = "Int" ->
            LET v == get_int(p, c.name)
            IN  IF v # {} THEN CompareInt(The(v), c.val, c.cmp) ELSE c.cmp = "NotEqual"
      [] c.kind = "Trigger" -> get_trigger(p, c.name)

evaluate_condition(c, p) ==
    CASE c.kind = "Bool" -> get_bool(p, c.name) = {c.bval}
      [] c.kind = "Float" ->
            LET v == get_float(p, c.name)
            IN  IF v # {} THEN CompareFloat(The(v), c.val, c.cmp) ELSE FALSE
      [] c.kind = "Int" ->
            LET v == get_int(p, c.name)
            IN  IF v # {} THEN CompareInt(The(v), c.val, c.cmp) ELSE FALSE
      [] c.kind = "Trigger" -> get_trigger(p, c.name)

\* Mutant of evaluate_transition: one true condition is enough.
evaluate_transition_any(t, p) ==
    \E k \in 1..Len(t.conditions) : evaluate_condition(t.conditions[k], p)

\* The branch on has_exit_time is empty (layer.rs 117-120): the conditions
\* alone decide.
evaluate_transition(t, p) ==
    \A k \in 1..Len(t.conditions) : evaluate_condition(t.conditions[k], p)

---------------------------------------------------------------------------
\* f32 values that are quotients: the pair <<num, den>> in lowest terms with
\* den > 0, and <<0, 0>> for the NaN that 0.0 / 0.0 yields.

RECURSIVE Gcd(_, _)
Gcd(a, b) == IF b = 0 THEN a ELSE Gcd(b, a % b)

Abs(x) == IF x < 0 THEN 0 - x ELSE x

NaN == <<0, 0>>

Zero == <<0, 1>>

One == <<1, 1>>

\* n / d.  (No division of the model has d = 0 with n # 0.)
Frac(n, d) ==
    IF d = 0 THEN NaN
    ELSE IF d < 0 THEN <<(0 - n) \div Gcd(Abs(n), Abs(d)), (0 - d) \div Gcd(Abs(n), Abs(d))>>
    ELSE <<n \div Gcd(Abs(n), Abs(d)), d \div Gcd(Abs(n), Abs(d))>>

\* 1.0 - a - b
OneMinus(a, b) ==
    IF a[2] = 0 \/ b[2] = 0 THEN NaN
    ELSE Frac(a[2] * b[2] - a[1] * b[2] - b[1] * a[2], a[2] * b[2])

\* w == 0.0
IsZero(w) == w[2] # 0 /\ w[1] = 0

\* w >= 0.0
NotNegative(w) == w[2] # 0 /\ w[1] >= 0

---------------------------------------------------------------------------
\* BlendTree (blend_tree.rs)

Simple1D(name) == [kind |-> "Simple1D", x |-> name, y |-> name]

Directional2D(x, y) == [kind |-> "Directional2D", x |-> x, y |-> y]

\* MotionThreshold::Simple1D(x) and ::Directional2D(x, y)
Threshold1D(x) == [kind |-> "Simple1D", x |-> x, y |-> 0]

Threshold2D(x, y) == [kind |-> "Directional2D", x |-> x, y |-> y]

\* The weights of a blending job's entries with entry k (from 1) at w.
SetWeight(job, k, w) == [job EXCEPT ![k].weight = w]

\* blend_tree.rs 150-170: the loop over the pairs of neighbours, from pair
\* i (motions i and i + 1, counted from 1) on.
RECURSIVE Walk1D(_, _, _, _)
Walk1D(motions, job, v, i) ==
    IF i > Len(motions) - 1 THEN job
    ELSE IF motions[i].threshold.kind # "Simple1D" \/ motions[i + 1].threshold.kind # "Simple1D"
    THEN Walk1D(motions, job, v, i + 1)
    ELSE IF v >= motions[i].threshold.x /\ v <= motions[i + 1].threshold.x
    THEN Walk1D(motions,
                SetWeight(SetWeight(job, i,
                              OneMinus(Frac(v - motions[i].threshold.x,
                                            motions[i + 1].threshold.x - motions[i].threshold.x),
                                       Zero)),
                          i + 1,
                          Frac(v - motions[i].threshold.x,
                               motions[i + 1].threshold.x - motions[i].threshold.x)),
                v, i + 1)
    ELSE Walk1D(motions, SetWeight(job, i, Zero), v, i + 1)

\* blend_tree.rs 172-183: the first motion below its threshold; the branch
\* for the last motion hangs on the else of the first `if let`.
Edges1D(motions, job, v) ==
    IF motions[1].threshold.kind = "Simple1D"
    THEN IF v <= motions[1].threshold.x THEN SetWeight(job, 1, One) ELSE job
    ELSE IF /\ motions[Len(motions)].threshold.kind = "Simple1D"
            /\ v >= motions[Len(motions)].threshold.x
            /\ Len(job) > 0
         THEN SetWeight(job, Len(job), One)
         ELSE job

calculate_weights_1d(motions, job, v) ==
    IF Len(motions) = 0 THEN job
    ELSE IF Len(motions) = 1 THEN SetWeight(job, 1, One)
    ELSE Edges1D(motions, Walk1D(motions, job, v, 1), v)

\* blend_tree.rs 201-211: the 2D thresholds, in the order of the motions.
Positions(motions) ==
    SelectSeq([k \in 1..Len(motions) |-> motions[k].threshold],
              LAMBDA th : th.kind = "Directional2D")

\* blend_tree.rs 224: the denominator of the barycentric coordinates.
Denominator(p1, p2, p3) == (p2.y - p3.y) * (p1.x - p3.x) + (p3.x - p2.x) * (p1.y - p3.y)

\* blend_tree.rs 229-233: w1, w2, w3 of the point (x, y).
WithThird(w1, w2) == <<w1, w2, OneMinus(w1, w2)>>

\* Mutant of Barycentric: the first two coordinates are exchanged.
BarycentricSwapped(p1, p2, p3, x, y) ==
    << Frac((p3.y - p1.y) * (x - p3.x) + (p1.x - p3.x) * (y - p3.y), Denominator(p1, p2, p3)),
       Frac((p2.y - p3.y) * (x - p3.x) + (p3.x - p2.x) * (y - p3.y), Denominator(p1, p2, p3)),
       OneMinus(Frac((p2.y - p3.y) * (x - p3.x) + (p3.x - p2.x) * (y - p3.y),
                     Denominator(p1, p2, p3)),
                Frac((p3.y - p1.y) * (x - p3.x) + (p1.x - p3.x) * (y - p3.y),
                     Denominator(p1, p2, p3))) >>

Barycentric(p1, p2, p3, x, y) ==
    WithThird(Frac((p2.y - p3.y) * (x - p3.x) + (p3.x - p2.x) * (y - p3.y),
                   Denominator(p1, p2, p3)),
              Frac((p3.y - p1.y) * (x - p3.x) + (p1.x - p3.x) * (y - p3.y),
                   Denominator(p1, p2, p3)))

\* blend_tree.rs 236: w1 >= 0.0 && w2 >= 0.0 && w3 >= 0.0
AllNotNegative(w) == NotNegative(w[1]) /\ NotNegative(w[2]) /\ NotNegative(w[3])

\* The triples i < j < k the loops visit and stop at: a triangle that is
\* not degenerate and holds the point.
Containing(pos, x, y) ==
    {tr \in {t \in (1..Len(pos)) \X (1..Len(pos)) \X (1..Len(pos)) : t[1] < t[2] /\ t[2] < t[3]} :
        /\ Denominator(pos[tr[1]], pos[tr[2]], pos[tr[3]]) # 0
        /\ AllNotNegative(Barycentric(pos[tr[1]], pos[tr[2]], pos[tr[3]], x, y))}

\* The order in which the three nested loops visit the triples.
Before(a, b) ==
    \/ a[1] < b[1]
    \/ a[1] = b[1] /\ a[2] < b[2]
    \/ a[1] = b[1] /\ a[2] = b[2] /\ a[3] <= b[3]

FirstTriple(s) == CHOOSE tr \in s : \A other \in s : Before(tr, other)

\* The square of point.distance(pos).
Distance2(p, x, y) == (x - p.x) * (x - p.x) + (y - p.y) * (y - p.y)

\* Mutant of Nearest: the last position at the least distance.
NearestLast(pos, x, y) ==
    IF Len(pos) = 0 THEN 1
    ELSE CHOOSE k \in 1..Len(pos) :
            /\ \A j \in 1..Len(pos) : Distance2(pos[k], x, y) <= Distance2(pos[j], x, y)
            /\ \A j \in (k + 1)..Len(pos) : Distance2(pos[j], x, y) > Distance2(pos[k], x, y)

\* blend_tree.rs 248-257: the first position at the least distance (index
\* from 1; 1 when there is no position).
Nearest(pos, x, y) ==
    IF Len(pos) = 0 THEN 1
    ELSE CHOOSE k \in 1..Len(pos) :
            /\ \A j \in 1..Len(pos) : Distance2(pos[k], x, y) <= Distance2(pos[j], x, y)
            /\ \A j \in 1..(k - 1) : Distance2(pos[j], x, y) > Distance2(pos[k], x, y)

\* Every weight of the job reset to 0.0.
ZeroWeights(job) == [k \in 1..Len(job) |-> [job[k] EXCEPT !.weight = Zero]]

\* blend_tree.rs 237-240
AssignTriple(job, tr, w) ==
    SetWeight(SetWeight(SetWeight(job, tr[1], w[1]), tr[2], w[2]), tr[3], w[3])

\* blend_tree.rs 236-241: the triangle tr holds the point.
AssignFound(pos, job, x, y, tr) ==
    AssignTriple(job, tr, Barycentric(pos[tr[1]], pos[tr[2]], pos[tr[3]], x, y))

\* blend_tree.rs 213-262, for the positions pos; found holds the triangles
\* at which the loops would stop.
Weights2DFrom(pos, job, x, y, found) ==
    IF found # {} THEN AssignFound(pos, job, x, y, FirstTriple(found))
    ELSE IF Nearest(pos, x, y) <= Len(job) THEN SetWeight(job, Nearest(pos, x, y), One)
    ELSE job

Weights2D(pos, job, x, y) == Weights2DFrom(pos, job, x, y, Containing(pos, x, y))

\* Mutant of calculate_weights_2d: a tree of fewer than 3 children is
\* treated as any other.
calculate_weights_2d_unguarded(motions, job, x, y) ==
    Weights2D(Positions(motions), ZeroWeights(job), x, y)

calculate_weights_2d(motions, job, x, y) ==
    IF Len(motions) < 3
    THEN IF Len(job) > 0 THEN SetWeight(ZeroWeights(job), 1, One) ELSE job
    ELSE Weights2D(Positions(motions), ZeroWeights(job), x, y)

---------------------------------------------------------------------------
\* AnimationState (state.rs) and BlendTree::update

\* What a buffer holds is named by the job that writes it and the inputs
\* the job has: SoaTransform::default() in every record for a job without
\* entries, else the blend of the job's entries.
Blend(entries) == [blend |-> entries]

DefaultPose == Blend(<<>>)

\* An ozz Animation (opaque): a clip and its duration, in time units.
Clip(name, duration) == [name |-> name, duration |-> duration]

\* What a sampling job writes to its output: the clip's pose at the ratio.
Sampled(animation, ratio) == [animation |-> animation, ratio |-> ratio]

\* Mutant of SimpleStateUpdate: the state plays on from its own ratio by the
\* tick's delta.
SimpleStatePlayback(state, time, failed) ==
    IF state.animation = {} THEN [state |-> state, res |-> "ok", updated |-> {}]
    ELSE [state |-> [state EXCEPT !.ratio =
                        Frac((@[1] * (The(state.animation).duration \div @[2])
                              + time.delta_secs) % The(state.animation).duration,
                             The(state.animation).duration)],
          res |-> IF failed THEN "err" ELSE "ok", updated |-> {}]

\* Mutant of SampleRatio: the clock is not wrapped at the clip's end.
SampleRatioUnwrapped(elapsed_secs, duration) == Frac(elapsed_secs, duration)

\* state.rs 73: (time.elapsed_secs() % duration) / duration
SampleRatio(elapsed_secs, duration) == Frac(elapsed_secs % duration, duration)

\* SimpleState::new: the sampling job with its animation and ratio 0.0.
SimpleStateNew(animation) ==
    [kind |-> "Simple", animation |-> {animation}, ratio |-> Zero]

\* SimpleState::update: the job's ratio is set, then the job runs; failed
\* tells whether the run fails.
SimpleStateUpdate(state, time, failed) ==
    IF state.animation = {} THEN [state |-> state, res |-> "ok", updated |-> {}]
    ELSE [state |-> [state EXCEPT !.ratio = SampleRatio(time.elapsed_secs,
                                                        The(state.animation).duration)],
          res |-> IF failed THEN "err" ELSE "ok", updated |-> {}]

\* BlendMotionState::Animation and ::SubTree: the child state behind its
\* Arc<RwLock<..>>, with the lock as another thread may have left it ("free",
\* "held" by a guard of that thread, or "poisoned").
Animation(state) == [kind |-> "Animation", state |-> state, lock |-> "free"]

SubTree(state) == [kind |-> "SubTree", state |-> state, lock |-> "free"]

MotionData(motion, threshold) == [motion |-> motion, threshold |-> threshold]

BlendState(blend_tree) == [kind |-> "Blend", blend_tree |-> blend_tree]

\* weight <= 0.0 is false: the entries a blending job (ozz) accumulates.
Contributes(w) == ~(w[2] # 0 /\ w[1] <= 0)

\* What a blending job writes to its output when it runs on `entries`, each
\* bound to a buffer that holds entries[k].transform.
BlendRun(entries) ==
    Blend(SelectSeq(entries, LAMBDA e : Contributes(e.weight)))

\* get_output_pointer of a state, read: what the state's job writes.
RECURSIVE OutputOf(_)
OutputOf(state) ==
    IF state.kind = "Simple"
    THEN IF state.animation = {} THEN DefaultPose
         ELSE Sampled(The(state.animation), state.ratio)
    ELSE BlendRun([k \in 1..Len(state.blend_tree.blend_job) |->
             [transform |-> OutputOf(state.blend_tree.motions[
                                         state.blend_tree.blend_job[k].transform].motion.state),
              weight |-> state.blend_tree.blend_job[k].weight]])

\* build_blend_layers: one entry of weight 0.0 per child whose lock can be
\* read, bound to that child's output (transform: the child's position).
RECURSIVE BuildLayersFrom(_, _, _)
BuildLayersFrom(motions, k, acc) ==
    IF k > Len(motions) THEN acc
    ELSE IF motions[k].motion.lock = "poisoned" THEN BuildLayersFrom(motions, k + 1, acc)
    ELSE BuildLayersFrom(motions, k + 1, Append(acc, [transform |-> k, weight |-> Zero]))

build_blend_layers(motions) == BuildLayersFrom(motions, 1, <<>>)

\* BlendTree::new
BlendTreeNew(blend_type, motions) ==
    [blend_type |-> blend_type, motions |-> motions,
     blend_job |-> build_blend_layers(motions)]

\* Mutant of AssignWeights: the weights are reset when a driving parameter
\* is absent.
AssignWeightsResetting(tree, p) ==
    IF tree.blend_type.kind = "Simple1D"
    THEN IF get_float(p, tree.blend_type.x) = {} THEN ZeroWeights(tree.blend_job)
         ELSE calculate_weights_1d(tree.motions, tree.blend_job,
                                   The(get_float(p, tree.blend_type.x)))
    ELSE IF get_float(p, tree.blend_type.x) = {} \/ get_float(p, tree.blend_type.y) = {}
         THEN ZeroWeights(tree.blend_job)
         ELSE calculate_weights_2d(tree.motions, tree.blend_job,
                                   The(get_float(p, tree.blend_type.x)),
                                   The(get_float(p, tree.blend_type.y)))

\* blend_tree.rs 95-108: the weights after the first part of update; they
\* stay as they are when a driving parameter is absent.
AssignWeights(tree, p) ==
    IF tree.blend_type.kind = "Simple1D"
    THEN IF get_float(p, tree.blend_type.x) = {} THEN tree.blend_job
         ELSE calculate_weights_1d(tree.motions, tree.blend_job,
                                   The(get_float(p, tree.blend_type.x)))
    ELSE IF get_float(p, tree.blend_type.x) = {} \/ get_float(p, tree.blend_type.y) = {}
         THEN tree.blend_job
         ELSE calculate_weights_2d(tree.motions, tree.blend_job,
                                   The(get_float(p, tree.blend_type.x)),
                                   The(get_float(p, tree.blend_type.y)))

\* blend_tree.rs 133: the tree's blending job runs.
RunTree(tree, fail, updated) ==
    [tree |-> tree, res |-> IF "tree" \in fail THEN "err" ELSE "ok", updated |-> updated]

RECURSIVE TreeUpdate(_, _, _, _)

RECURSIVE UpdateMotions(_, _, _, _, _, _)

\* BlendState::update, whose tree's update ends as r.
AfterTree(state, r) ==
    [state |-> [state EXCEPT !.blend_tree = r.tree], res |-> r.res, updated |-> r.updated]

BlendStateUpdate(state, p, time, fail) ==
    AfterTree(state, TreeUpdate(state.blend_tree, p, time, fail))

\* blend_tree.rs 119-128: state.update of a child whose lock was acquired.
MotionUpdate(motion, p, time, fail) ==
    IF motion.kind = "Animation"
    THEN SimpleStateUpdate(motion.state, time, "motion" \in fail)
    ELSE BlendStateUpdate(motion.state, p, time, fail)

\* What child k's update, with result r, leaves: its Err ends the tree's.
AfterMotion(tree, k, p, time, fail, updated, r) ==
    IF r.res # "ok"
    THEN [tree |-> [tree EXCEPT !.motions[k].motion.state = r.state],
          res |-> r.res, updated |-> updated \cup {k}]
    ELSE UpdateMotions([tree EXCEPT !.motions[k].motion.state = r.state],
                       k + 1, p, time, fail, updated \cup {k})

\* blend_tree.rs 112-133: the loop over the children from child k on, then
\* the tree's job.  layers_mut()[i] panics past the job's entries; a child
\* of weight 0.0 is passed over; state.write() waits while another thread
\* holds the lock and fails when the lock is poisoned.
UpdateMotions(tree, k, p, time, fail, updated) ==
    IF k > Len(tree.motions) THEN RunTree(tree, fail, updated)
    ELSE IF k > Len(tree.blend_job)
    THEN [tree |-> tree, res |-> "panic", updated |-> updated]
    ELSE IF IsZero(tree.blend_job[k].weight)
    THEN UpdateMotions(tree, k + 1, p, time, fail, updated)
    ELSE IF tree.motions[k].motion.lock = "held"
    THEN [tree |-> tree, res |-> "blocked", updated |-> updated]
    ELSE IF tree.motions[k].motion.lock = "poisoned"
    THEN UpdateMotions(tree, k + 1, p, time, fail, updated)
    ELSE AfterMotion(tree, k, p, time, fail, updated,
                     MotionUpdate(tree.motions[k].motion, p, time, fail))

\* BlendTree::update
TreeUpdate(tree, p, time, fail) ==
    UpdateMotions([tree EXCEPT !.blend_job = AssignWeights(tree, p)], 1, p, time, fail, {})

\* AnimationState::update of the state `name` of a layer
StateUpdate(state, name, p, time, fail) ==
    IF state.kind = "Simple" THEN SimpleStateUpdate(state, time, name \in fail)
    ELSE BlendStateUpdate(state, p, time, fail)

---------------------------------------------------------------------------
\* AnimationLayer (layer.rs)

\* The name of a layer's own cross-fade buffer (blend_job_output); no state
\* bears this name.
BlendOut == "blend_job_output"

\* The length of the clip the host's simple states play: 2 seconds, in the
\* time units of the clock (half seconds).
ClipDuration == 4

SimpleState == SimpleStateNew(Clip("clip", ClipDuration))

LayerNew(layer_blend_type, layer_weight, default_state_name) ==
    [layer_blend_type |-> layer_blend_type,
     layer_weight |-> layer_weight,
     default_state_name |-> default_state_name,
     current_state |-> default_state_name,
     states |-> {},
     transitions |-> {},
     next_state |-> {},
     transition_time |-> 0,
     transition_duration |-> 0,
     is_transitioning |-> FALSE,
     blending_job |-> <<>>,
     output_source_changed |-> TRUE]

add_state(l, name, state) == [l EXCEPT !.states = MapPut(@, name, state)]

add_transition(l, from_state, transition) ==
    LET old == MapGet(l.transitions, from_state)
        list == IF old = {} THEN <<>> ELSE The(old)
    IN  [l EXCEPT !.transitions = MapPut(@, from_state, Append(list, transition))]

\* The loop of check_transitions: the index of the transition that fires,
\* or 0.  The first transition whose conditions hold ends the walk, with
\* false when its to_state is no key of the state map.
RECURSIVE WalkTransitions(_, _, _, _)

\* Mutant of WalkTransitions: the state map is not consulted.
WalkTransitionsUnchecked(l, list, k, p) ==
    IF k > Len(list) THEN 0
    ELSE IF evaluate_transition(list[k], p) THEN k
         ELSE WalkTransitions(l, list, k + 1, p)

WalkTransitions(l, list, k, p) ==
    IF k > Len(list) THEN 0
    ELSE IF evaluate_transition(list[k], p)
         THEN IF ~MapHas(l.states, list[k].to_state) THEN 0 ELSE k
         ELSE WalkTransitions(l, list, k + 1, p)

\* Mutant of get_output_pointer: the current state's buffer at all times.
get_output_pointer_current(l, i) == <<i, l.current_state>>

\* Mutant of FiredIndex: a running transition does not stop the walk.
FiredIndexInterruptible(l, p) ==
    LET found == MapGet(l.transitions, l.current_state)
    IN  IF found = {} THEN 0 ELSE WalkTransitions(l, The(found), 1, p)

\* The index check_transitions fires for layer l under the store p (0: none).
FiredIndex(l, p) ==
    LET found == MapGet(l.transitions, l.current_state)
    IN  IF found = {} THEN 0
        ELSE IF l.is_transitioning THEN 0
        ELSE WalkTransitions(l, The(found), 1, p)

\* Mutant of check_transitions: the flag is left as it was.
check_transitions_unflagged(l, p) ==
    LET k == FiredIndex(l, p)
    IN  IF k = 0 THEN l
        ELSE LET t == The(MapGet(l.transitions, l.current_state))[k]
             IN  [l EXCEPT !.next_state = {t.to_state},
                           !.transition_time = 0,
                           !.transition_duration = t.duration]

check_transitions(l, p) ==
    LET k == FiredIndex(l, p)
    IN  IF k = 0 THEN l
        ELSE LET t == The(MapGet(l.transitions, l.current_state))[k]
             IN  [l EXCEPT !.next_state = {t.to_state},
                           !.transition_time = 0,
                           !.transition_duration = t.duration,
                           !.is_transitioning = TRUE]

StateBuffer(i, name) == <<i, name>>

BlendBuffer(i) == <<i, BlendOut>>

get_output_pointer(l, i) ==
    IF l.is_transitioning THEN BlendBuffer(i)
    ELSE IF MapHas(l.states, l.current_state) THEN StateBuffer(i, l.current_state)
    ELSE BlendBuffer(i)

has_output_changed(l) == l.output_source_changed

clear_output_changed(l) == [l EXCEPT !.output_source_changed = FALSE]

\* What one call of AnimationLayer::update hands back: the layer, the store
\* it was lent (&mut Parameters), Ok or Err, the buffers written, the reads
\* of buffers not written earlier in the tick, and what the call observed
\* (log.failed: the sub-updates and jobs that ran and failed, in order;
\* log.err: the one whose error the call returned).
LayerResult(l, p, res, fresh, stale, log) ==
    [layer |-> l, parameters |-> p, res |-> res, fresh |-> fresh, stale |-> stale,
     log |-> [log EXCEPT !.res = res]]

\* The observation of a layer whose update was not called.
NoLog ==
    [evaluated |-> FALSE, res |-> "none", seen |-> ParametersNew, fired |-> 0, blended |-> FALSE,
     failed |-> <<>>, err |-> {}, updated |-> {}, was_transitioning |-> FALSE]

\* The log after the sub-update or job `what` failed; `returned` tells
\* whether its error ended the layer's update (?) or was dropped (let _ =).
Failed(log, what, returned) ==
    [log EXCEPT !.failed = Append(@, what),
                !.err = IF returned THEN {what} ELSE @]

NonZero(w) == w[1] # 0

\* The reads of a blending job that runs with the entries `entries` when
\* the buffers `fresh` have been written in this tick.
StaleReads(reader, entries, fresh) ==
    {<<reader, entries[k].transform>> : k \in
        {j \in 1..Len(entries) : NonZero(entries[j].weight) /\ entries[j].transform \notin fresh}}

\* What the output of the state `name` of layer l holds.
StateHeld(l, name) ==
    IF MapHas(l.states, name) THEN OutputOf(The(MapGet(l.states, name))) ELSE DefaultPose

\* What the buffer `buffer` of layer l holds: a state's output, or the
\* layer's blend_job_output, written by the layer's blending job.
Held(l, buffer) ==
    IF buffer[2] = BlendOut
    THEN BlendRun([k \in 1..Len(l.blending_job) |->
             [transform |-> StateHeld(l, l.blending_job[k].transform[2]),
              weight |-> l.blending_job[k].weight]])
    ELSE StateHeld(l, buffer[2])

\* The layer's blending job runs (and fails when the primitive does).
RunBlend(l, fail) == [layer |-> l, res |-> IF "xfade" \in fail THEN "err" ELSE "ok"]

\* Mutant of blend_states: the two weights are exchanged.
blend_states_swapped(l, i, current, next, t, fail) ==
    RunBlend([l EXCEPT !.blending_job =
                 << [transform |-> current, weight |-> t],
                    [transform |-> next, weight |-> <<t[2] - t[1], t[2]>>] >>],
             fail)

\* blend_states: the job's layer list is rebuilt with two entries, then the
\* job runs.
blend_states(l, i, current, next, t, fail) ==
    RunBlend([l EXCEPT !.blending_job =
                 << [transform |-> current, weight |-> <<t[2] - t[1], t[2]>>],
                    [transform |-> next, weight |-> t] >>],
             fail)

\* Mutant of CompleteTransition: the change of output source is not flagged.
CompleteTransitionSilent(l) ==
    [l EXCEPT !.current_state = The(l.next_state),
              !.next_state = {},
              !.is_transitioning = FALSE]

\* layer.rs 190-195: the transition is complete.
CompleteTransition(l) ==
    [l EXCEPT !.current_state = The(l.next_state),
              !.next_state = {},
              !.is_transitioning = FALSE,
              !.output_source_changed = TRUE]

\* Mutant of HandleTransition: a transition is complete only when the
\* elapsed time exceeds the duration.
HandleTransitionStrict(l, i, p, time, fail, fresh, log) ==
    IF l.transition_time + time.delta_secs > l.transition_duration
    THEN LayerResult(CompleteTransition([l EXCEPT !.transition_time = @ + time.delta_secs]),
                     p, "ok", fresh, {}, log)
    ELSE LayerResult([l EXCEPT !.transition_time = @ + time.delta_secs], p, "ok", fresh, {}, log)

\* layer.rs 186-225, entered with next_state set: l is the layer after its
\* current state's update, fresh the buffers written so far.
\* layer.rs 217-222: the cross-fade of layer l1, whose two states have been
\* updated (fresh1: the buffers written so far).
CrossFade(l1, i, p, fail, fresh1, log1) ==
    IF MapHas(l1.states, l1.current_state) /\ MapHas(l1.states, The(l1.next_state))
    THEN LET b == blend_states(l1, i, StateBuffer(i, l1.current_state),
                               StateBuffer(i, The(l1.next_state)),
                               <<l1.transition_time, l1.transition_duration>>, fail)
         IN  IF b.res = "err"
             THEN LayerResult(b.layer, p, "err", fresh1, {}, Failed(log1, "xfade", TRUE))
             ELSE LayerResult(b.layer, p, "ok",
                      fresh1 \cup {BlendBuffer(i)},
                      StaleReads(BlendBuffer(i), b.layer.blending_job, fresh1),
                      [log1 EXCEPT !.blended = TRUE])
    ELSE LayerResult(l1, p, "ok", fresh1, {}, log1)

\* layer.rs 205-215: what the next state's update, with result r, leaves:
\* its error is dropped (let _ =); then the cross-fade.
AfterNext(l1, i, p, fail, fresh, log, r) ==
    IF r.res = "ok"
    THEN CrossFade([l1 EXCEPT !.states = MapPut(@, The(l1.next_state), r.state)], i, p, fail,
                   fresh \cup {StateBuffer(i, The(l1.next_state))}, log)
    ELSE IF r.res = "err"
    THEN CrossFade([l1 EXCEPT !.states = MapPut(@, The(l1.next_state), r.state)], i, p, fail,
                   fresh, Failed(log, "next", FALSE))
    ELSE LayerResult([l1 EXCEPT !.states = MapPut(@, The(l1.next_state), r.state)],
                     p, r.res, fresh, {}, log)

\* Mutant of HandleTransition: the elapsed time is compared with the
\* duration before the delta is added.
HandleTransitionLate(l, i, p, time, fail, fresh, log) ==
    IF l.transition_time >= l.transition_duration
    THEN LayerResult(CompleteTransition([l EXCEPT !.transition_time = @ + time.delta_secs]),
                     p, "ok", fresh, {}, log)
    ELSE IF MapHas(l.states, The(l.next_state))
    THEN AfterNext([l EXCEPT !.transition_time = @ + time.delta_secs], i, p, fail, fresh, log,
                   StateUpdate(The(MapGet(l.states, The(l.next_state))), The(l.next_state),
                               p, time, fail))
    ELSE CrossFade([l EXCEPT !.transition_time = @ + time.delta_secs], i, p, fail, fresh, log)

\* Mutant of HandleTransition: the delta is not added to the elapsed time.
HandleTransitionFrozen(l, i, p, time, fail, fresh, log) ==
    IF l.transition_time >= l.transition_duration
    THEN LayerResult(CompleteTransition(l), p, "ok", fresh, {}, log)
    ELSE IF MapHas(l.states, The(l.next_state))
    THEN AfterNext(l, i, p, fail, fresh, log,
                   StateUpdate(The(MapGet(l.states, The(l.next_state))), The(l.next_state),
                               p, time, fail))
    ELSE CrossFade(l, i, p, fail, fresh, log)

\* layer.rs 186-225, entered with next_state set: l is the layer after its
\* current state's update, fresh the buffers written so far.
HandleTransition(l, i, p, time, fail, fresh, log) ==
    IF l.transition_time + time.delta_secs >= l.transition_duration
    THEN LayerResult(CompleteTransition([l EXCEPT !.transition_time = @ + time.delta_secs]),
                     p, "ok", fresh, {}, log)
    ELSE IF MapHas(l.states, The(l.next_state))
    THEN AfterNext([l EXCEPT !.transition_time = @ + time.delta_secs], i, p, fail, fresh, log,
                   StateUpdate(The(MapGet(l.states, The(l.next_state))), The(l.next_state),
                               p, time, fail))
    ELSE CrossFade([l EXCEPT !.transition_time = @ + time.delta_secs], i, p, fail, fresh, log)

\* layer.rs 174-225: the current state's update and the rest, for the
\* layer l as check_transitions and the change detection left it.  r is the
\* result of the current state's update; its Err ends the layer's update (?).
AfterCurrent(l, i, p, time, fail, log, r) ==
    IF r.res = "err"
    THEN LayerResult([l EXCEPT !.states = MapPut(@, l.current_state, r.state)], p, "err", {}, {},
                     Failed([log EXCEPT !.updated = r.updated], "current", TRUE))
    ELSE IF r.res # "ok"
    THEN LayerResult([l EXCEPT !.states = MapPut(@, l.current_state, r.state)], p, r.res, {}, {},
                     [log EXCEPT !.updated = r.updated])
    ELSE IF l.next_state = {}
    THEN LayerResult([l EXCEPT !.states = MapPut(@, l.current_state, r.state)], p, "ok",
                     {StateBuffer(i, l.current_state)}, {}, [log EXCEPT !.updated = r.updated])
    ELSE HandleTransition([l EXCEPT !.states = MapPut(@, l.current_state, r.state)],
                          i, p, time, fail, {StateBuffer(i, l.current_state)},
                          [log EXCEPT !.updated = r.updated])

UpdateStates(l, i, p, time, fail, log) ==
    IF MapHas(l.states, l.current_state)
    THEN AfterCurrent(l, i, p, time, fail, log,
                      StateUpdate(The(MapGet(l.states, l.current_state)), l.current_state,
                                  p, time, fail))
    ELSE IF l.next_state = {}
    THEN LayerResult(l, p, "ok", {}, {}, log)
    ELSE HandleTransition(l, i, p, time, fail, {}, log)

\* layer.rs 169-172: a change of is_transitioning is a change of source.
DetectChange(was_transitioning, l) ==
    IF was_transitioning # l.is_transitioning
    THEN [l EXCEPT !.output_source_changed = TRUE] ELSE l

\* AnimationLayer::update.  time is the host's Time (delta_secs, elapsed_secs); fail names what fails in
\* this tick: a state name (that state's update returns Err), "xfade" (the
\* layer's blending job), "final" (the controller's).
LayerUpdateBody(l, i, p, time, fail) ==
    UpdateStates(DetectChange(l.is_transitioning, check_transitions(l, p)), i, p, time, fail,
                 [evaluated |-> TRUE, res |-> "ok", seen |-> p, fired |-> FiredIndex(l, p),
                  blended |-> FALSE, failed |-> <<>>, err |-> {}, updated |-> {},
                  was_transitioning |-> l.is_transitioning])

\* Mutant of LayerUpdate: the layer consumes the triggers it was lent.
LayerUpdateConsuming(l, i, p, time, fail) ==
    [LayerUpdateBody(l, i, p, time, fail) EXCEPT !.parameters = reset_triggers(@)]

\* Mutant of LayerUpdate: the layer writes a bool of the store it was lent.
LayerUpdateWriting(l, i, p, time, fail) ==
    [LayerUpdateBody(l, i, p, time, fail) EXCEPT !.parameters = set_bool(@, "go", FALSE)]

LayerUpdate(l, i, p, time, fail) == LayerUpdateBody(l, i, p, time, fail)

---------------------------------------------------------------------------
\* AnimatorController (controller.rs)

FinalBuffer == <<0, "final_output">>

\* The skeleton (ozz, opaque): joint i, counted from 0, has its parent at
\* position i + 1 of the sequence.
SKELETON_NO_PARENT == -1

num_joints(sk) == Len(sk)

joint_parent(sk, i) == sk[i + 1]

is_leaf(sk, i) == \A j \in 0..(num_joints(sk) - 1) : joint_parent(sk, j) # i

\* The value in lane i % 4 of field `field` of SoA record i / 4 of a buffer
\* that holds `pose`.
Lane(pose, field, i) == [pose |-> pose, field |-> field, soa |-> i \div 4, lane |-> i % 4]

\* (a - b).length()
Distance(a, b) == [length |-> <<a, b>>]

OzzTransform(scale, rotation, position) ==
    [scale |-> scale, rotation |-> rotation, position |-> position]

\* controller.rs 195-246: what joint i with parent `parent` adds to the lists.
PushJoint(sk, pose, i, parent, acc) ==
    [bone_trans |->
        Append(acc.bone_trans,
               OzzTransform(Distance(Lane(pose, "translation", i), Lane(pose, "translation", parent)),
                            Lane(pose, "rotation", i),
                            Lane(pose, "translation", i))),
     spine_trans |->
        Append(acc.spine_trans,
               OzzTransform(Distance(Lane(pose, "translation", i), Lane(pose, "translation", parent)),
                            Lane(pose, "rotation", parent),
                            Lane(pose, "translation", parent)))
        \o (IF is_leaf(sk, i)
            THEN << OzzTransform(Distance(Lane(pose, "translation", i),
                                          Lane(pose, "translation", parent)),
                                 Lane(pose, "rotation", i),
                                 Lane(pose, "translation", i)) >>
            ELSE <<>>)]

\* The loop of update_bones from joint i on; a joint without parent is
\* passed over.
RECURSIVE ReadJoints(_, _, _, _)
ReadJoints(sk, pose, i, acc) ==
    IF i >= num_joints(sk) THEN acc
    ELSE IF joint_parent(sk, i) = SKELETON_NO_PARENT
         THEN ReadJoints(sk, pose, i + 1, acc)
         ELSE ReadJoints(sk, pose, i + 1, PushJoint(sk, pose, i, joint_parent(sk, i), acc))

\* update_bones: both lists are cleared and filled from the final output.
update_bones(sk, pose) == ReadJoints(sk, pose, 0, [bone_trans |-> <<>>, spine_trans |-> <<>>])

\* build_blending_layers: one entry per Override layer, in order; an
\* Additive layer panics.
RECURSIVE BuildFrom(_, _, _)
BuildFrom(ls, i, acc) ==
    IF i > Len(ls) THEN [entries |-> acc, res |-> "ok"]
    ELSE IF ls[i].layer_blend_type = "Additive" THEN [entries |-> acc, res |-> "panic"]
    ELSE BuildFrom(ls, i + 1,
             Append(acc, [transform |-> get_output_pointer(ls[i], i),
                          weight |-> ls[i].layer_weight]))

build_blending_layers(ls) == BuildFrom(ls, 1, <<>>)

RECURSIVE UpdateLayers(_, _, _, _)

\* controller.rs 100-105: the final job is rebound to a layer whose output
\* source changed (st holds the layer's update already); then the next layer.
Rebind(st, i, time, fail) ==
    IF has_output_changed(st.layers[i])
    THEN IF i > Len(st.final)
         THEN [st EXCEPT !.res = "panic", !.err = {<<i, "index out of bounds">>}]
         ELSE UpdateLayers(
                  [st EXCEPT !.final[i].transform = get_output_pointer(st.layers[i], i),
                             !.layers[i] = clear_output_changed(@)],
                  i + 1, time, fail)
    ELSE UpdateLayers(st, i + 1, time, fail)

\* The failures layer i's update logged, as the controller's.
FailedIn(i, log) == [k \in 1..Len(log.failed) |-> <<i, log.failed[k]>>]

\* controller.rs 98: what layer i's update, with result r, leaves; its Err
\* ends the controller's update.
AfterLayer(st, i, time, fail, r) ==
    IF r.res # "ok"
    THEN [st EXCEPT !.layers[i] = r.layer, !.parameters = r.parameters,
                    !.fresh = @ \cup r.fresh, !.stale = @ \cup r.stale,
                    !.log[i] = r.log, !.res = r.res,
                    !.failed = @ \o FailedIn(i, r.log),
                    !.err = {<<i, what>> : what \in r.log.err}]
    ELSE Rebind([st EXCEPT !.layers[i] = r.layer, !.parameters = r.parameters,
                           !.fresh = @ \cup r.fresh, !.stale = @ \cup r.stale,
                           !.log[i] = r.log,
                           !.failed = @ \o FailedIn(i, r.log)],
                i, time, fail)

\* controller.rs 97-106: the loop over the layers, from layer i on.
UpdateLayers(st, i, time, fail) ==
    IF i > Len(st.layers) THEN st
    ELSE AfterLayer(st, i, time, fail,
                    LayerUpdate(st.layers[i], i, st.parameters, time, fail))

\* The final job's entries with what their buffers hold.
FinalEntries(ls, final) ==
    [k \in 1..Len(final) |->
        [transform |-> IF final[k].transform[1] \in 1..Len(ls)
                       THEN Held(ls[final[k].transform[1]], final[k].transform)
                       ELSE DefaultPose,
         weight |-> final[k].weight]]

\* controller.rs 108-115, after the loop over the layers (st.res is "run"
\* when the loop came to its end).
FinishUpdate(st, fail) ==
    IF st.res # "run" THEN st
    ELSE IF "final" \in fail
    THEN [st EXCEPT !.parameters = reset_triggers(@), !.res = "err",
                    !.failed = Append(@, <<0, "final">>),
                    !.err = {<<0, "final">>}]
    ELSE [st EXCEPT !.parameters = reset_triggers(@),
                    !.res = "ok",
                    !.stale = @ \cup StaleReads(FinalBuffer, st.final, st.fresh),
                    !.fresh = @ \cup {FinalBuffer},
                    !.output = BlendRun(FinalEntries(st.layers, st.final))]

\* Mutant of Readout: the lists are read out when update returns Err, too.
ReadoutAlways(st, sk, old) ==
    IF st.res \in {"ok", "err"} THEN update_bones(sk, st.output) ELSE old

\* controller.rs 113-115: update_bones runs when nothing before it returned
\* (or panicked); otherwise the lists stay as they were (old).
Readout(st, sk, old) ==
    IF st.res = "ok" THEN update_bones(sk, st.output) ELSE old

ControllerUpdate(ls, p, final, pose, time, fail) ==
    FinishUpdate(
        UpdateLayers([layers |-> ls, parameters |-> p, final |-> final, output |-> pose,
                      res |-> "run", err |-> {}, failed |-> <<>>,
                      fresh |-> {}, stale |-> {}, log |-> [k \in 1..Len(ls) |-> NoLog]],
                     1, time, fail),
        fail)

\* AnimatorController::new: the layers, the store, and the final job built
\* by build_blending_layers (whose panic is the constructor's).
ControllerNew(ls, p) ==
    LET b == build_blending_layers(ls)
    IN  [layers |-> ls, parameters |-> p, final |-> b.entries, res |-> b.res,
         output |-> DefaultPose, bone_trans |-> <<>>, spine_trans |-> <<>>]

add_layer(ls, l) == Append(ls, l)

---------------------------------------------------------------------------
\* The layers the host builds (AnimationLayer::new, add_state,
\* add_transition) before it hands them to the controller.

Full == <<2, 2>>

Half == <<1, 2>>

\* Scenario "cross-fade": A -> B over 4 units when go, and back at once.
LayerGo ==
    add_transition(
      add_transition(
        add_state(add_state(LayerNew("Override", Full, "A"), "A", SimpleState), "B", SimpleState),
        "A", Transition("B", 4, <<CondBool("go", TRUE)>>)),
      "B", Transition("A", 0, <<CondBool("go", FALSE)>>))

\* Scenario "trigger one-shot": jump toggles between A and B.
LayerJump(weight) ==
    add_transition(
      add_transition(
        add_state(add_state(LayerNew("Override", weight, "A"), "A", SimpleState), "B", SimpleState),
        "A", Transition("B", 2, <<CondTrigger("jump")>>)),
      "B", Transition("A", 2, <<CondTrigger("jump")>>))

\* The first transition of A names a state that was never added.
LayerMiss ==
    add_transition(
      add_transition(
        add_state(add_state(LayerNew("Override", Full, "A"), "A", SimpleState), "B", SimpleState),
        "A", Transition("X", 2, <<CondBool("go", TRUE)>>)),
      "A", Transition("B", 4, <<CondBool("go", TRUE)>>))

\* Two transitions of A that can hold together, the first with two conditions.
LayerOrder ==
    add_transition(
      add_transition(
        add_transition(
          add_state(add_state(add_state(LayerNew("Override", Half, "A"),
              "A", SimpleState), "B", SimpleState), "C", SimpleState),
          "A", Transition("B", 3, <<CondBool("go", TRUE), CondTrigger("jump")>>)),
        "A", Transition("C", 0, <<CondTrigger("jump")>>)),
      "C", Transition("A", 2, <<CondBool("go", FALSE)>>))

\* The default state was never added to the state map.
LayerNoDefault ==
    add_transition(
      add_state(LayerNew("Override", Full, "A"), "B", SimpleState),
      "A", Transition("B", 2, <<CondTrigger("jump")>>))

\* A second trigger-guarded layer: jump moves it from A to B at once.
LayerHop ==
    add_transition(
      add_state(add_state(LayerNew("Override", Half, "A"), "A", SimpleState), "B", SimpleState),
      "A", Transition("B", 0, <<CondTrigger("jump")>>))

\* One state and no transition.
LayerPlain == add_state(LayerNew("Override", Half, "A"), "A", SimpleState)

LayerAdditive == add_state(LayerNew("Additive", Half, "A"), "A", SimpleState)

\* The layer lists the host constructs a controller with.
ControllerConfigs ==
    { <<LayerGo>>,
      <<LayerJump(Full), LayerHop>>,
      <<LayerMiss, LayerOrder>>,
      <<LayerNoDefault>>,
      <<LayerGo, LayerAdditive>> }

\* The layers the host adds with add_layer.
AddableLayers == {LayerPlain, LayerAdditive}

BoolNames == {"go"}

TriggerNames == {"jump"}

\* What may fail in a tick (see LayerUpdateBody).
FailChoices == {{}, {"A"}, {"B"}, {"xfade"}, {"final"}}

\* What may fail in a tick of a controller whose states are blend trees:
\* the sampling of the children, a tree's blending job, the final job.
TreeFailChoices == {{}, {"motion"}, {"tree"}, {"final"}}

HasTree(ls) ==
    \E i \in 1..Len(ls) : \E e \in ls[i].states : e[2].kind = "Blend"

Failures(ls) == IF HasTree(ls) THEN TreeFailChoices ELSE FailChoices

\* The skeletons the host loads: a chain of five joints (two SoA records),
\* and three joints of which two are roots.
Skeletons == { <<SKELETON_NO_PARENT, 0, 1, 2, 3>>,
               <<SKELETON_NO_PARENT, SKELETON_NO_PARENT, 0>> }

\* The skeletons a layer list is animated on: the one-layer controllers on
\* either, the others on the two-root skeleton.
SkeletonsFor(cfg) ==
    IF Len(cfg) = 1 THEN Skeletons ELSE {<<SKELETON_NO_PARENT, SKELETON_NO_PARENT, 0>>}

---------------------------------------------------------------------------
\* The state machine

History(op, dt, res, log, stale, ticked, armed) ==
    [op |-> op, dt |-> dt, res |-> res, log |-> log, stale |-> stale,
     ticked |-> ticked, armed |-> armed, err |-> {}, failed |-> <<>>]

\* The controller as AnimatorController::new leaves it.
Constructed(c, sk) ==
    /\ layers = c.layers
    /\ parameters = c.parameters
    /\ final_blending_job = c.final
    /\ skeleton = sk
    /\ blending_output = c.output
    /\ bone_trans = c.bone_trans
    /\ spine_trans = c.spine_trans
    /\ elapsed = 0
    /\ last = History("new", 0, c.res, <<>>, {}, FALSE, {})

Init ==
    \E cfg \in ControllerConfigs :
        \E sk \in SkeletonsFor(cfg) : Constructed(ControllerNew(cfg, ParametersNew), sk)

Alive == last.res # "panic"

\* No call of update is waiting: the host has the controller to itself.
Returned == Alive /\ last.res # "blocked"

\* The host's calls between updates leave only their own mark in the history.
HostCall(op, armed) == History(op, 0, "ok", <<>>, {}, last.ticked, armed)

SetBool ==
    /\ Returned
    /\ \E n \in BoolNames, v \in BOOLEAN :
           parameters' = set_bool(parameters, n, v)
    /\ last' = HostCall("set_bool", last.armed)
    /\ UNCHANGED <<layers, final_blending_job, readout>>

SetTrigger ==
    /\ Returned
    /\ \E n \in TriggerNames :
           /\ parameters' = set_trigger(parameters, n)
           /\ last' = HostCall("set_trigger", last.armed \cup {n})
    /\ UNCHANGED <<layers, final_blending_job, readout>>

\* The host adds layers only before the first update (the lifecycle the
\* specification asks of it); the controller itself does not check this.
AddLayer ==
    /\ Returned
    /\ ~last.ticked
    /\ Len(layers) < MaxLayers
    /\ \E l \in AddableLayers : layers' = add_layer(layers, l)
    /\ last' = HostCall("add_layer", last.armed)
    /\ UNCHANGED <<parameters, final_blending_job, readout>>

\* The host calls the public build_blending_layers (as it must after
\* add_layer for the final job to know the layer).
BuildBlendingLayers ==
    /\ Returned
    /\ ~last.ticked
    /\ LET b == build_blending_layers(layers)
       IN  /\ final_blending_job' = b.entries
           /\ last' = History("build_blending_layers", 0, b.res, <<>>, {}, last.ticked, last.armed)
    /\ UNCHANGED <<layers, parameters, readout>>

\* The host's Time as an update reads it.
Time(dt, clock) == [delta_secs |-> dt, elapsed_secs |-> clock]

\* What an update leaves in the controller.
Commit(st, dt, lists) ==
    /\ layers' = st.layers
    /\ parameters' = st.parameters
    /\ final_blending_job' = st.final
    /\ blending_output' = st.output
    /\ bone_trans' = lists.bone_trans
    /\ spine_trans' = lists.spine_trans
    /\ last' = [History("update", dt, st.res, st.log, st.stale, TRUE, {})
                   EXCEPT !.err = st.err, !.failed = st.failed]
    /\ UNCHANGED <<skeleton, elapsed>>

\* The call waits for a lock another thread holds: it has not returned, and
\* the controller it borrows is out of the host's reach until it does.
Waiting(dt) ==
    /\ last' = History("update", dt, "blocked", [k \in 1..Len(layers) |-> NoLog], {},
                       last.ticked, last.armed)
    /\ UNCHANGED <<layers, parameters, final_blending_job, readout>>

\* The lists an update that ends as st leaves.
CommitUpdate(st, dt) ==
    IF st.res = "blocked" THEN Waiting(dt)
    ELSE Commit(st, dt, Readout(st, skeleton,
                                [bone_trans |-> bone_trans, spine_trans |-> spine_trans]))

\* The deltas of the update that is called next, or that goes on after its
\* wait.
Deltas == IF last.res = "blocked" THEN {last.dt} ELSE 0..MaxDt

Update ==
    /\ Alive
    /\ \E dt \in Deltas, fail \in Failures(layers) :
           CommitUpdate(ControllerUpdate(layers, parameters, final_blending_job,
                                         blending_output, Time(dt, elapsed), fail), dt)

Next == SetBool \/ SetTrigger \/ AddLayer \/ BuildBlendingLayers \/ Update

Spec == Init /\ [][Next]_vars

---------------------------------------------------------------------------
\* The evaluation of conditions: controllers of one layer whose only
\* transition, A -> B, carries a condition of each kind and compare type on
\* the parameter x, alone or after a condition on y, over the stores the
\* host can hand to AnimatorController::new.

CompareTypes == {"Greater", "Less", "Equals", "NotEqual"}

ConditionsOnX ==
    {CondBool("x", b) : b \in BOOLEAN}
    \cup {CondFloat("x", 1, cmp) : cmp \in CompareTypes}
    \cup {CondInt("x", 1, cmp) : cmp \in CompareTypes}
    \cup {CondTrigger("x")}

ConditionLists == {<<c>> : c \in ConditionsOnX} \cup {<<CondBool("y", TRUE), c>> : c \in ConditionsOnX}

LayerCond(conditions, exit) ==
    add_transition(
      add_state(add_state(LayerNew("Override", Full, "A"), "A", SimpleState), "B", SimpleState),
      "A", IF exit THEN TransitionExit("B", 2, conditions, 3) ELSE Transition("B", 2, conditions))

\* A store as set_bool, set_float, set_int and set_trigger build it: x a
\* bool or not, x a float and an int of one value or neither, x a trigger or
\* not, y true or absent.
StoreOf(b, v, t, y) ==
    [bools |-> {<<"x", e>> : e \in b} \cup {<<"y", e>> : e \in y},
     floats |-> {<<"x", e>> : e \in v},
     ints |-> {<<"x", e>> : e \in v},
     triggers |-> {<<"x", e>> : e \in t}]

Stores ==
    {StoreOf(b, v, t, y) : b \in {{}, {TRUE}, {FALSE}}, v \in {{}, {0}, {1}, {2}},
                           t \in {{}, {TRUE}}, y \in {{}, {TRUE}}}

InitCond ==
    \E conditions \in ConditionLists, exit \in BOOLEAN, p \in Stores :
        Constructed(ControllerNew(<<LayerCond(conditions, exit)>>, p),
                    <<SKELETON_NO_PARENT, 0>>)

NextCond == Update

SpecCond == InitCond /\ [][NextCond]_vars

---------------------------------------------------------------------------
\* Blend trees: controllers of one layer whose state A is a blend state,
\* under the floats the host sets (SpecTree) and, for the tree of two
\* children, the locks another thread takes on the children it shares
\* (SpecLock).

\* Child k of a tree: a simple state on its own clip.
Motion(k, threshold) ==
    MotionData(Animation(SimpleStateNew(Clip(<<"motion", k>>, ClipDuration))), threshold)

\* Simple1D trees on "speed": two children (the thresholds 0 and 1 of the
\* scenario, in quarters), three children, and two children at one value.
TreePair ==
    BlendTreeNew(Simple1D("speed"), <<Motion(1, Threshold1D(0)), Motion(2, Threshold1D(4))>>)

TreeTriple ==
    BlendTreeNew(Simple1D("speed"),
                 <<Motion(1, Threshold1D(0)), Motion(2, Threshold1D(4)),
                   Motion(3, Threshold1D(8))>>)

TreeTwin ==
    BlendTreeNew(Simple1D("speed"),
                 <<Motion(1, Threshold1D(0)), Motion(2, Threshold1D(4)),
                   Motion(3, Threshold1D(4))>>)

\* A Simple1D tree whose second child is a tree itself.
TreeNested ==
    BlendTreeNew(Simple1D("speed"),
                 <<Motion(1, Threshold1D(0)),
                   MotionData(SubTree(BlendState(TreePair)), Threshold1D(4))>>)

\* Directional2D trees on "x" and "y": a triangle (the scenario's (0,0),
\* (1,0), (0,1), in quarters), a square, three children on a line, and two
\* children.
TreeTriangle ==
    BlendTreeNew(Directional2D("x", "y"),
                 <<Motion(1, Threshold2D(0, 0)), Motion(2, Threshold2D(4, 0)),
                   Motion(3, Threshold2D(0, 4))>>)

TreeSquare ==
    BlendTreeNew(Directional2D("x", "y"),
                 <<Motion(1, Threshold2D(0, 0)), Motion(2, Threshold2D(4, 0)),
                   Motion(3, Threshold2D(0, 4)), Motion(4, Threshold2D(4, 4))>>)

TreeLine ==
    BlendTreeNew(Directional2D("x", "y"),
                 <<Motion(1, Threshold2D(0, 0)), Motion(2, Threshold2D(2, 0)),
                   Motion(3, Threshold2D(4, 0))>>)

TreeShort ==
    BlendTreeNew(Directional2D("x", "y"),
                 <<Motion(1, Threshold2D(0, 0)), Motion(2, Threshold2D(4, 0))>>)

\* A tree the host has updated (BlendTree::update is public) with a store
\* of its own before it hands the tree to a state.
Warmed(tree, p) == TreeUpdate(tree, p, Time(0, 0), {}).tree

TreePairWarm == Warmed(TreePair, set_float(ParametersNew, "speed", 1))

TreeTriangleWarm ==
    Warmed(TreeTriangle, set_float(set_float(ParametersNew, "x", 1), "y", 1))

Trees1D == {TreePair, TreeTriple, TreeTwin, TreeNested, TreePairWarm}

Trees2D == {TreeTriangle, TreeSquare, TreeLine, TreeShort, TreeTriangleWarm}

LayerTree(tree) == add_state(LayerNew("Override", Full, "A"), "A", BlendState(tree))

\* The values the host sets: "speed" for the Simple1D trees, "x" and "y"
\* for the Directional2D trees.
SpeedValues == {-1, 1, 4, 5, 20}

PointValues == {1, 3, 5}

\* The tree of state A of the one layer.
TheTree == The(MapGet(layers[1].states, "A")).blend_tree

SetFloat ==
    /\ Returned
    /\ \E n \in {"speed", "x", "y"} :
           \E v \in (IF n = "speed" THEN SpeedValues ELSE PointValues) :
               /\ (n = "speed") = (TheTree.blend_type.kind = "Simple1D")
               /\ parameters' = set_float(parameters, n, v)
    /\ last' = HostCall("set_float", last.armed)
    /\ UNCHANGED <<layers, final_blending_job, readout>>

InitTree ==
    \E tree \in Trees1D \cup Trees2D :
        Constructed(ControllerNew(<<LayerTree(tree)>>, ParametersNew),
                    <<SKELETON_NO_PARENT, 0>>)

\* The layers with the lock of child k of the tree as `lock`.
WithLock(k, lock) ==
    [layers EXCEPT ![1].states =
        MapPut(@, "A", BlendState([TheTree EXCEPT !.motions[k].motion.lock = lock]))]

AllFree == \A k \in 1..Len(TheTree.motions) : TheTree.motions[k].motion.lock = "free"

\* Another thread that shares child k takes a guard on its lock,
HoldLock ==
    /\ Alive
    /\ AllFree
    /\ \E k \in 1..Len(TheTree.motions) : layers' = WithLock(k, "held")
    /\ UNCHANGED <<parameters, final_blending_job, readout, last>>

\* drops the guard,
ReleaseLock ==
    /\ Alive
    /\ \E k \in 1..Len(TheTree.motions) :
           /\ TheTree.motions[k].motion.lock = "held"
           /\ layers' = WithLock(k, "free")
    /\ UNCHANGED <<parameters, final_blending_job, readout, last>>

\* or panics with the guard in hand.
PoisonLock ==
    /\ Alive
    /\ \E k \in 1..Len(TheTree.motions) :
           /\ TheTree.motions[k].motion.lock = "held"
           /\ layers' = WithLock(k, "poisoned")
    /\ UNCHANGED <<parameters, final_blending_job, readout, last>>

NextTree == SetFloat \/ Update

SpecTree == InitTree /\ [][NextTree]_vars

InitLock ==
    Constructed(ControllerNew(<<LayerTree(TreePair)>>, ParametersNew), <<SKELETON_NO_PARENT, 0>>)

NextLock == SetFloat \/ HoldLock \/ ReleaseLock \/ PoisonLock \/ Update

SpecLock == InitLock /\ [][NextLock]_vars

---------------------------------------------------------------------------
\* The host's clock: controllers of simple states under a clock that the
\* host's frames advance between updates.

\* The last reading of the clock, in time units.
MaxElapsed == 5

\* A -> B over 2 units when go, and no way back.
LayerFade ==
    add_transition(
      add_state(add_state(LayerNew("Override", Full, "A"), "A", SimpleState), "B", SimpleState),
      "A", Transition("B", 2, <<CondBool("go", TRUE)>>))

ClockConfigs == { <<LayerFade>>, <<LayerPlain, LayerFade>> }

InitClock ==
    \E cfg \in ClockConfigs :
        Constructed(ControllerNew(cfg, ParametersNew), <<SKELETON_NO_PARENT, 0>>)

\* Time::elapsed_secs grows from one frame to the next.
AdvanceClock ==
    /\ Returned
    /\ elapsed < MaxElapsed
    /\ elapsed' = elapsed + 1
    /\ last' = HostCall("clock", last.armed)
    /\ UNCHANGED <<layers, parameters, final_blending_job, skeleton, blending_output,
                   bone_trans, spine_trans>>

NextClock == AdvanceClock \/ SetBool \/ Update

SpecClock == InitClock /\ [][NextClock]_vars

---------------------------------------------------------------------------
\* The layer's state machine on its own: controllers of simple states, among
\* them a layer whose public field the host has written, under the bools
\* and triggers the host sets.

\* is_transitioning is a public field (layer.rs 23): the host sets it on a
\* layer it has built, before it hands the layer to the controller.
LayerForced == [LayerGo EXCEPT !.is_transitioning = TRUE]

LayerConfigs ==
    { <<LayerGo>>, <<LayerMiss>>, <<LayerOrder>>, <<LayerNoDefault>>, <<LayerForced>>,
      <<LayerJump(Full), LayerHop>> }

InitLayer ==
    \E cfg \in LayerConfigs :
        Constructed(ControllerNew(cfg, ParametersNew), <<SKELETON_NO_PARENT, 0>>)

NextLayer == SetBool \/ SetTrigger \/ Update

SpecLayer == InitLayer /\ [][NextLayer]_vars

---------------------------------------------------------------------------
\* The host's frame loop: the layers of SpecLayer that the host builds with
\* the methods of AnimationLayer, under a host that goes on calling update
\* (animate_bones runs in every frame of the Update schedule) and whose
\* frames, again and again, take time and do not fail.

LiveConfigs ==
    { <<LayerGo>>, <<LayerOrder>>, <<LayerNoDefault>>, <<LayerJump(Full), LayerHop>> }

InitLive ==
    \E cfg \in LiveConfigs :
        Constructed(ControllerNew(cfg, ParametersNew), <<SKELETON_NO_PARENT, 0>>)

\* A frame of positive delta in which no job fails.  update is enabled in
\* every state in which the controller is alive, and such a frame moves
\* every layer that is in a transition: where a transition is under way,
\* weak fairness of Tick asks that frames of this kind occur again and
\* again, which is how SpecLive states it.
Tick ==
    /\ Alive
    /\ \E dt \in 1..MaxDt :
           CommitUpdate(ControllerUpdate(layers, parameters, final_blending_job,
                                         blending_output, Time(dt, elapsed), {}), dt)

\* A frame of delta 0 (the host's clock is paused) in which no job fails.
Pause ==
    /\ Alive
    /\ CommitUpdate(ControllerUpdate(layers, parameters, final_blending_job,
                                     blending_output, Time(0, elapsed), {}), 0)

NextLive == SetBool \/ SetTrigger \/ Pause \/ Tick

SpecLive == InitLive /\ [][NextLive]_vars /\ []<><<Tick>>_vars

---------------------------------------------------------------------------
\* The parameter store: controllers of simple states and of blend trees,
\* constructed with stores that hold parameters of the four kinds.

\* A store as set_bool, set_float, set_int and set_trigger build it: go,
\* the floats that drive the trees, an int, and jump set or not.
StoreWith(b, v, t) ==
    [bools |-> {<<"go", b>>},
     floats |-> {<<"speed", v>>, <<"x", v>>, <<"y", 1>>},
     ints |-> {<<"count", v>>},
     triggers |-> {<<"jump", e>> : e \in t}]

StoresFilled == {StoreWith(b, v, t) : b \in BOOLEAN, v \in {1, 3}, t \in {{}, {TRUE}}}

StoreConfigs ==
    { <<LayerGo>>, <<LayerJump(Full), LayerHop>>, <<LayerTree(TreePair)>>,
      <<LayerTree(TreeTriangle)>>, <<LayerGo, LayerTree(TreeNested)>> }

InitStore ==
    \E cfg \in StoreConfigs, p \in StoresFilled :
        Constructed(ControllerNew(cfg, p), <<SKELETON_NO_PARENT, 0>>)

NextStore == SetBool \/ SetTrigger \/ Update

SpecStore == InitStore /\ [][NextStore]_vars

---------------------------------------------------------------------------
\* Notions the properties share

IsUpdate == last.op = "update"

\* The transitions declared for the current state of l.
CurrentTransitions(l) ==
    LET found == MapGet(l.transitions, l.current_state)
    IN  IF found = {} THEN <<>> ELSE The(found)

\* Transition t of its current state is what layer l2 is running or has
\* just completed.
Started(l2, t) ==
    /\ l2.transition_duration = t.duration
    /\ \/ l2.next_state = {t.to_state} /\ l2.is_transitioning
       \/ l2.next_state = {} /\ ~l2.is_transitioning /\ l2.current_state = t.to_state

\* The first transition of the current state of l, in declaration order,
\* whose conditions all hold under p and whose to_state is in the state map
\* (0: there is none).
FirstQualifying(l, p) ==
    LET list == CurrentTransitions(l)
        ok == {k \in 1..Len(list) :
                  evaluate_transition(list[k], p) /\ MapHas(l.states, list[k].to_state)}
    IN  IF ok = {} THEN 0 ELSE CHOOSE k \in ok : \A j \in ok : k <= j

---------------------------------------------------------------------------
\* C1: a layer that is not transitioning fires, of the transitions of its
\* current state, the first in declaration order whose conditions hold and
\* whose to_state is in the state map; an earlier transition whose
\* conditions hold but whose to_state is missing does not stop it.
C1_FirstQualifyingFires ==
    [][(last'.op = "update") =>
        \A i \in 1..Len(layers) :
            (last'.log[i].evaluated /\ ~layers[i].is_transitioning) =>
                LET k == FirstQualifying(layers[i], parameters)
                IN  /\ last'.log[i].fired = k
                    /\ k > 0 => Started(layers'[i], CurrentTransitions(layers[i])[k])]_vars

---------------------------------------------------------------------------
\* The cross-fade of layer i over one update step, as C2 describes it: the
\* transition in question fired in this step or was running before it.
CrossFadeStep(i) ==
    LET l == layers[i]
        l2 == layers'[i]
        fired == last'.log[i].fired > 0
        D == l2.transition_duration
        e == l2.transition_time
        target == IF fired THEN CurrentTransitions(l)[last'.log[i].fired].to_state
                  ELSE The(l.next_state)
    IN  /\ fired => e = last'.dt
        /\ l.is_transitioning => e = l.transition_time + last'.dt
        /\ e < D =>
              /\ l2.is_transitioning
              /\ l2.next_state = {target}
              /\ last'.log[i].blended
              /\ l2.blending_job =
                    << [transform |-> StateBuffer(i, l.current_state), weight |-> <<D - e, D>>],
                       [transform |-> StateBuffer(i, target), weight |-> <<e, D>>] >>
        /\ e >= D =>
              /\ l2.current_state = target
              /\ l2.next_state = {}
              /\ ~l2.is_transitioning
              /\ ~last'.log[i].blended

\* Layer i has, over this update step, a transition of positive duration
\* that fired in it or was running before it.
CrossFading(i) ==
    /\ layers[i].is_transitioning \/ last'.log[i].fired > 0
    /\ layers'[i].transition_duration > 0

C3_NotInterruptible ==
    [][\A i \in 1..Len(layers) :
          layers[i].is_transitioning =>
              IF layers'[i].is_transitioning
              THEN /\ layers'[i].next_state = layers[i].next_state
                   /\ layers'[i].transition_duration = layers[i].transition_duration
                   /\ layers'[i].current_state = layers[i].current_state
                   /\ layers'[i].transition_time >= layers[i].transition_time
              ELSE layers'[i].current_state = The(layers[i].next_state)]_vars

\* A layer went through an update while transitioning, under parameters
\* that would have fired a transition of its current state.
C3_Witness ==
    /\ IsUpdate
    /\ \E i \in 1..Len(layers) :
          /\ last.log[i].evaluated
          /\ last.log[i].fired = 0
          /\ layers[i].is_transitioning
          /\ layers[i].transition_time > 0
          /\ FiredIndex([layers[i] EXCEPT !.is_transitioning = FALSE], last.log[i].seen) > 0

\* C4: after any call of update that returns, Ok or Err, no trigger is set.
C4_TriggersClearedAfterUpdate ==
    (IsUpdate /\ last.res \in {"ok", "err"}) =>
        \A n \in TriggerNames : ~get_trigger(parameters, n)

---------------------------------------------------------------------------
HasTrigger(t, n) == \E k \in 1..Len(t.conditions) : t.conditions[k] = CondTrigger(n)

\* C5: trigger one-shot.  Over every update: a layer that is not
\* transitioning and whose first transition with true conditions is guarded
\* by Trigger(n) and leads to an existing state fires it in the update that
\* follows set_trigger(n); and no update fires a Trigger(n)-guarded
\* transition unless set_trigger(n) was called since the update before it.
C5_TriggerOneShot ==
    [][(last'.op = "update") =>
        \A i \in 1..Len(layers) : \A n \in TriggerNames :
            LET list == CurrentTransitions(layers[i])
                fired == last'.log[i].fired
            IN  /\ (/\ last'.log[i].evaluated
                    /\ ~layers[i].is_transitioning
                    /\ n \in last.armed)
                   => \A k \in 1..Len(list) :
                         (/\ HasTrigger(list[k], n)
                          /\ MapHas(layers[i].states, list[k].to_state)
                          /\ evaluate_transition(list[k], parameters)
                          /\ \A j \in 1..(k - 1) : ~evaluate_transition(list[j], parameters))
                         => fired = k /\ Started(layers'[i], list[k])
                /\ (fired > 0 /\ HasTrigger(list[fired], n)) => n \in last.armed]_vars

\* C6: every layer whose update runs in a controller update evaluates its
\* transitions against the store as it was when the controller update was
\* called, whatever its index; the triggers are cleared when the update
\* returns Ok, after the last layer: layers guarded by the same trigger all
\* fire in the same tick.
C6_SameParametersForAllLayers ==
    [][(last'.op = "update") =>
        /\ \A i \in 1..Len(layers) :
              last'.log[i].evaluated =>
                  LET k == FiredIndex(layers[i], parameters)
                  IN  /\ last'.log[i].seen = parameters
                      /\ last'.log[i].fired = k
                      /\ k > 0 => Started(layers'[i], CurrentTransitions(layers[i])[k])
        /\ last'.res = "ok" =>
              /\ \A i \in 1..Len(layers) : last'.log[i].evaluated
              /\ parameters'.triggers = {}]_vars

\* Two layers guarded by the same trigger both fired in one update.
C6_Witness ==
    /\ IsUpdate
    /\ Len(layers) >= 2
    /\ \A i \in 1..2 :
          /\ last.log[i].fired > 0
          /\ get_trigger(last.log[i].seen, "jump")
          /\ ~layers[i].output_source_changed

WellFormed == \A i \in 1..Len(layers) : MapHas(layers[i].states, layers[i].default_state_name)

\* C7: input freshness.  In every tick (of a controller whose layers all
\* hold their default state), every buffer a blend reads with non-zero
\* weight was written earlier in the same tick.
C7_InputsFresh == (IsUpdate /\ WellFormed) => last.stale = {}

\* C8: after every successful update, entry i of the final job points at
\* layer i's output_ref() and layer i's output_source_changed is false.
C8_Rebinding ==
    (IsUpdate /\ last.res = "ok") =>
        \A i \in 1..Len(layers) :
            /\ i <= Len(final_blending_job)
            /\ final_blending_job[i].transform = get_output_pointer(layers[i], i)
            /\ ~layers[i].output_source_changed

\* A transition fired and completed within one successful update, and the
\* final job reads the target state's buffer.
C8_Witness ==
    /\ IsUpdate
    /\ last.res = "ok"
    /\ \E i \in 1..Len(layers) :
          /\ last.log[i].fired > 0
          /\ ~layers[i].is_transitioning
          /\ final_blending_job[i].transform = StateBuffer(i, "B")

\* C9: before the first update, whatever add_layer calls were made, the
\* final job has exactly one entry per layer, entry i pointing at layer i.
C9_EntryPerLayer ==
    (Alive /\ ~last.ticked) =>
        /\ Len(final_blending_job) = Len(layers)
        /\ \A i \in 1..Len(layers) :
              final_blending_job[i].transform = get_output_pointer(layers[i], i)

\* The sum of the weights w[1..n] of a list of entries, as a fraction.
RECURSIVE WeightSum(_, _)
WeightSum(w, n) ==
    IF n = 0 THEN <<0, 1>>
    ELSE LET r == WeightSum(w, n - 1)
         IN  <<r[1] * w[n][2] + w[n][1] * r[2], r[2] * w[n][2]>>

SameFraction(a, b) == a[1] * b[2] = b[1] * a[2]

\* C10: in every reachable state of a controller the final-blend entries'
\* weights sum to the sum of the layers' base weights.
C10_WeightSum ==
    Alive =>
        SameFraction(
            WeightSum([i \in 1..Len(final_blending_job) |-> final_blending_job[i].weight],
                      Len(final_blending_job)),
            WeightSum([i \in 1..Len(layers) |-> layers[i].layer_weight], Len(layers)))

---------------------------------------------------------------------------
\* C11: after every successful update the published per-joint list has
\* exactly J entries, one per joint of the skeleton, roots included.
C11_OneEntryPerJoint ==
    (IsUpdate /\ last.res = "ok") => Len(bone_trans) = num_joints(skeleton)

\* The transform of joint i as the final output buffer holds it.
JointOf(pose, i) ==
    OzzTransform(Lane(pose, "scale", i), Lane(pose, "rotation", i), Lane(pose, "translation", i))

\* C12: after a successful update entry i of the published list, for every
\* joint i in [0, J), is the translation, rotation and scale held in lane
\* i % 4 of SoA record i / 4 of the final output buffer.
C12_ListPositionIsJointIndex ==
    (IsUpdate /\ last.res = "ok") =>
        \A i \in 0..(num_joints(skeleton) - 1) :
            /\ i + 1 <= Len(bone_trans)
            /\ bone_trans[i + 1] = JointOf(blending_output, i)

\* C13: an update in which a sub-update or a blend ran and failed returns
\* Err, with the error of the first of them in evaluation order.
C13_FirstFailureReturned ==
    (IsUpdate /\ last.res # "panic" /\ last.failed # <<>>) =>
        /\ last.res = "err"
        /\ last.err = {last.failed[1]}

\* C14: an update that returns Err leaves the published lists exactly as
\* they were before the call.
C14_ListKeptOnError ==
    [][(last'.op = "update" /\ last'.res = "err") =>
          /\ bone_trans' = bone_trans
          /\ spine_trans' = spine_trans]_vars

\* An update failed in its final job after it had rebound that job, with a
\* list published by an earlier tick: a readout would have changed the list.
C14_Witness ==
    /\ IsUpdate
    /\ last.err = {<<0, "final">>}
    /\ bone_trans # <<>>
    /\ BlendRun(FinalEntries(layers, final_blending_job)) # blending_output
    /\ bone_trans # update_bones(skeleton,
                                 BlendRun(FinalEntries(layers, final_blending_job))).bone_trans

HasAdditive == \E i \in 1..Len(layers) : layers[i].layer_blend_type = "Additive"

\* C15: a controller that holds an Additive layer is built without abort,
\* and each of its updates returns the error AdditiveNotSupported and
\* leaves the published list as it was.
C15_AdditiveReported ==
    HasAdditive =>
        /\ last.res # "panic"
        /\ IsUpdate => /\ last.res = "err"
                       /\ last.err = {<<0, "AdditiveNotSupported">>}

---------------------------------------------------------------------------
\* Under the store p the first transition of the current state of l whose
\* conditions hold names a state that is not in the state map.
Rejected(l, p) ==
    LET list == CurrentTransitions(l)
    IN  \E k \in 1..Len(list) :
            /\ evaluate_transition(list[k], p)
            /\ ~MapHas(l.states, list[k].to_state)
            /\ \A j \in 1..(k - 1) : ~evaluate_transition(list[j], p)

SameProgress(l, l2) ==
    /\ l2.current_state = l.current_state
    /\ l2.next_state = l.next_state
    /\ l2.is_transitioning = l.is_transitioning
    /\ l2.transition_time = l.transition_time
    /\ l2.transition_duration = l.transition_duration

\* C16: a transition whose conditions hold and whose to_state is missing is
\* rejected without failing: the evaluation leaves current, next,
\* is_transitioning and the timers of the layer as they were, and the
\* layer's and the controller's update return Ok unless a sub-update or a
\* job of that tick fails.
C16_MissingStateRejected ==
    [][(last'.op = "update") =>
        \A i \in 1..Len(layers) :
            (/\ last'.log[i].evaluated
             /\ ~layers[i].is_transitioning
             /\ Rejected(layers[i], parameters))
            => /\ last'.log[i].fired = 0
               /\ SameProgress(layers[i], check_transitions(layers[i], parameters))
               /\ SameProgress(layers[i], layers'[i])
               /\ last'.log[i].failed = <<>> => last'.log[i].res = "ok"
               /\ (last'.failed = <<>> /\ last'.res # "panic") => last'.res = "ok"]_vars

\* A successful update rejected a transition to a missing state.
C16_Witness ==
    /\ IsUpdate
    /\ last.res = "ok"
    /\ \E i \in 1..Len(layers) :
          /\ last.log[i].evaluated
          /\ ~layers[i].is_transitioning
          /\ Rejected(layers[i], last.log[i].seen)
          /\ last.log[i].fired = 0

---------------------------------------------------------------------------
\* The store p has no parameter of the kind and name condition c asks for.
Missing(c, p) ==
    CASE c.kind = "Bool" -> \A e \in p.bools : e[1] # c.name
      [] c.kind = "Float" -> \A e \in p.floats : e[1] # c.name
      [] c.kind = "Int" -> \A e \in p.ints : e[1] # c.name
      [] c.kind = "Trigger" -> \A e \in p.triggers : e[1] # c.name

HasMissing(t, p) == \E k \in 1..Len(t.conditions) : Missing(t.conditions[k], p)

\* C17: a condition on a parameter that the store lacks evaluates to false,
\* whatever its kind, expected value and compare type, and a transition
\* that holds such a condition does not fire; the evaluation itself never
\* makes the update fail.
C17_MissingParameterIsFalse ==
    [][(last'.op = "update") =>
        \A i \in 1..Len(layers) :
            LET list == CurrentTransitions(layers[i])
            IN  \A k \in 1..Len(list) :
                    HasMissing(list[k], parameters) =>
                        /\ \A j \in 1..Len(list[k].conditions) :
                              Missing(list[k].conditions[j], parameters) =>
                                  evaluate_condition(list[k].conditions[j], parameters) = FALSE
                        /\ evaluate_transition(list[k], parameters) = FALSE
                        /\ last'.log[i].fired # k
                        /\ last'.log[i].failed = <<>> => last'.log[i].res = "ok"]_vars

\* An update evaluated, and did not fire, a transition whose first
\* condition held and whose second compares a missing int with NotEqual.
C17_Witness ==
    /\ IsUpdate
    /\ last.res = "ok"
    /\ \E i \in 1..Len(layers) :
          LET list == CurrentTransitions(layers[i])
          IN  /\ last.log[i].evaluated
              /\ last.log[i].fired = 0
              /\ ~layers[i].is_transitioning
              /\ Len(list) = 1
              /\ list[1].conditions = <<CondBool("y", TRUE), CondInt("x", 1, "NotEqual")>>
              /\ get_bool(last.log[i].seen, "y") = {TRUE}
              /\ get_int(last.log[i].seen, "x") = {}
              /\ get_bool(last.log[i].seen, "x") # {}

---------------------------------------------------------------------------
\* What a condition asks of the store, as C18 words it.
CondHolds(c, p) ==
    CASE c.kind = "Bool" -> <<c.name, c.bval>> \in p.bools
      [] c.kind = "Float" ->
            \E e \in p.floats : e[1] = c.name /\ CompareFloat(e[2], c.val, c.cmp)
      [] c.kind = "Int" ->
            \E e \in p.ints :
                /\ e[1] = c.name
                /\ \/ c.cmp = "Greater" /\ e[2] > c.val
                   \/ c.cmp = "Less" /\ e[2] < c.val
                   \/ c.cmp = "Equals" /\ e[2] = c.val
                   \/ c.cmp = "NotEqual" /\ e[2] # c.val
      [] c.kind = "Trigger" -> <<c.name, TRUE>> \in p.triggers

AllHold(t, p) == \A k \in 1..Len(t.conditions) : CondHolds(t.conditions[k], p)

\* C18: a transition fires only in an update at whose call every one of its
\* conditions holds of the store; and whether it declares an exit time
\* makes no difference: a layer that is not transitioning fires the first
\* transition of its current state whose conditions all hold, provided the
\* walk meets no missing to_state first.
C18_FiresOnlyWhenAllHold ==
    [][(last'.op = "update") =>
        \A i \in 1..Len(layers) :
            LET list == CurrentTransitions(layers[i])
                fired == last'.log[i].fired
                holding == {k \in 1..Len(list) : AllHold(list[k], parameters)}
            IN  /\ fired > 0 => fired \in holding
                /\ (/\ last'.log[i].evaluated
                    /\ ~layers[i].is_transitioning
                    /\ holding # {}
                    /\ ~Rejected(layers[i], parameters))
                   => /\ fired \in holding
                      /\ \A k \in holding : fired <= k]_vars

\* A transition that declares an exit time fired on its two conditions, the
\* second an Int compared with NotEqual.
C18_Witness ==
    /\ IsUpdate
    /\ \E i \in 1..Len(layers) :
          /\ last.log[i].fired = 1
          /\ layers[i].is_transitioning
          /\ LET t == CurrentTransitions(layers[i])[1]
             IN  /\ t.has_exit_time
                 /\ t.conditions = <<CondBool("y", TRUE), CondInt("x", 1, "NotEqual")>>
                 /\ get_int(last.log[i].seen, "x") = {2}

---------------------------------------------------------------------------
\* The state a transition that fired in this step, or was running before
\* it, leads layer i to.
TargetOf(i) ==
    IF last'.log[i].fired > 0
    THEN CurrentTransitions(layers[i])[last'.log[i].fired].to_state
    ELSE The(layers[i].next_state)

Arrived(i) ==
    /\ layers'[i].current_state = TargetOf(i)
    /\ layers'[i].next_state = {}
    /\ ~layers'[i].is_transitioning
    /\ ~last'.log[i].blended

\* C19 as stated: after the tick in which a transition of duration 0
\* fires, the layer is at the target, is not transitioning, and no
\* cross-fade was run for the transition.
C19_ZeroDurationEveryTick ==
    [][(last'.op = "update") =>
        \A i \in 1..Len(layers) :
            (last'.log[i].fired > 0 /\ layers'[i].transition_duration = 0) => Arrived(i)]_vars

\* C19 (amended): a transition of duration 0 that fires in a tick in which
\* the layer's update returns Ok is complete after that tick; one that
\* fired in a tick in which the layer's update returned Err is complete
\* after the first later tick in which it returns Ok; in neither case is a
\* cross-fade run.
C19_ZeroDurationCompletes ==
    [][(last'.op = "update") =>
        \A i \in 1..Len(layers) :
            (/\ last'.log[i].fired > 0 \/ layers[i].is_transitioning
             /\ layers'[i].transition_duration = 0
             /\ last'.log[i].res = "ok") => Arrived(i)]_vars

\* A transition of duration 0 fired and completed in one successful update
\* with dt = 0.
C19_Witness ==
    /\ IsUpdate
    /\ last.res = "ok"
    /\ last.dt = 0
    /\ \E i \in 1..Len(layers) :
          /\ last.log[i].fired > 0
          /\ ~last.log[i].blended
          /\ layers[i].transition_duration = 0
          /\ layers[i].next_state = {}

---------------------------------------------------------------------------
---------------------------------------------------------------------------
\* Blend-tree weights (SpecTree)

\* The step is an update in which the tree of state A computed weights from
\* the store the layer was lent.
TreeStep == last'.op = "update" /\ last'.log[1].evaluated

\* Child k's weight and threshold, and the value of the float `name` in the
\* store the update saw.
WeightOf(tree, k) == tree.blend_job[k].weight

ThresholdOf(tree, k) == tree.motions[k].threshold

Seen(name) == get_float(last'.log[1].seen, name)

\* The weight w is the quotient n / d.
Is(w, n, d) == w[2] # 0 /\ d # 0 /\ w[1] * d = n * w[2]

Is1D(tree) == tree.blend_type.kind = "Simple1D"

\* C21: after an update of a Simple1D tree in which v is present and lies in
\* the interval of the thresholds of children i and i + 1, child i weighs
\* 1 - a and child i + 1 weighs a, a = (v - t_i) / (t_(i+1) - t_i), for
\* every interval and whatever the weights were before.
C21_IntervalWeights ==
    [][(TreeStep /\ Is1D(TheTree) /\ Seen("speed") # {}) =>
          \A i \in 1..(Len(TheTree.motions) - 1) :
              LET v == The(Seen("speed"))
                  lo == ThresholdOf(TheTree, i).x
                  hi == ThresholdOf(TheTree, i + 1).x
              IN  (lo < hi /\ lo <= v /\ v <= hi) =>
                      /\ Is(WeightOf(TheTree', i), hi - v, hi - lo)
                      /\ Is(WeightOf(TheTree', i + 1), v - lo, hi - lo)]_vars

\* Child k of the tree weighs 1.0 and every other child 0.0.
OnlyChild(tree, k) ==
    \A j \in 1..Len(tree.blend_job) :
        IF j = k THEN Is(WeightOf(tree, j), 1, 1) ELSE IsZero(WeightOf(tree, j))

\* C22: after an update of a Simple1D tree with v present, v at or below the
\* first threshold leaves the first child at 1 and every other child at 0,
\* and v at or above the last threshold leaves the last child at 1 and every
\* other child at 0, after any sequence of earlier values.
C22_Boundaries ==
    [][(TreeStep /\ Is1D(TheTree) /\ Seen("speed") # {}) =>
          LET v == The(Seen("speed"))
              n == Len(TheTree.motions)
          IN  /\ v <= ThresholdOf(TheTree, 1).x => OnlyChild(TheTree', 1)
              /\ v >= ThresholdOf(TheTree, n).x => OnlyChild(TheTree', n)]_vars

\* The tree's driving parameter, or one of its two, is not in the store the
\* update saw.
DriverAbsent(tree) ==
    IF Is1D(tree) THEN Seen("speed") = {} ELSE Seen("x") = {} \/ Seen("y") = {}

\* The children of the tree whose weight is not 0.0.
Weighted(tree) == {k \in 1..Len(tree.blend_job) : ~IsZero(WeightOf(tree, k))}

\* C23: an update of a tree whose driving parameter is absent leaves every
\* child weight as it was; the update fails only where a job fails, and
\* when it returns Ok the children of non-zero weight have been updated.
C23_AbsentKeepsWeights ==
    [][(TreeStep /\ DriverAbsent(TheTree)) =>
          /\ \A k \in 1..Len(TheTree.blend_job) :
                WeightOf(TheTree', k) = WeightOf(TheTree, k)
          /\ last'.res = "ok" \/ last'.failed # <<>>
          /\ last'.res = "ok" => last'.log[1].updated = Weighted(TheTree)]_vars

\* An update without the driving parameter returned Ok on a tree that
\* carries weights of an earlier update, and updated the weighted children.
C23_Witness ==
    /\ IsUpdate
    /\ last.res = "ok"
    /\ last.log[1].evaluated
    /\ MapHas(layers[1].states, "A")
    /\ The(MapGet(layers[1].states, "A")).kind = "Blend"
    /\ get_float(last.log[1].seen, "speed") = {}
    /\ Is1D(TheTree)
    /\ Is(WeightOf(TheTree, 1), 3, 4)
    /\ last.log[1].updated = {1, 2}

Is2D(tree) == tree.blend_type.kind = "Directional2D"

\* Both driving parameters of a Directional2D tree are in the store.
PointSeen == Seen("x") # {} /\ Seen("y") # {}

\* Twice the signed area of the triangle a, b, c.
Area2(a, b, c) == (b.x - a.x) * (c.y - a.y) - (c.x - a.x) * (b.y - a.y)

Point(x, y) == [x |-> x, y |-> y]

\* The barycentric coordinates of p in the triangle of the children tr, as
\* numerators over Area2 of the triangle: the areas p spans with the sides
\* opposite to each corner.
Coordinates(tree, tr, p) ==
    << Area2(p, ThresholdOf(tree, tr[2]), ThresholdOf(tree, tr[3])),
       Area2(ThresholdOf(tree, tr[1]), p, ThresholdOf(tree, tr[3])),
       Area2(ThresholdOf(tree, tr[1]), ThresholdOf(tree, tr[2]), p) >>

TriangleArea(tree, tr) ==
    Area2(ThresholdOf(tree, tr[1]), ThresholdOf(tree, tr[2]), ThresholdOf(tree, tr[3]))

\* The triangle of the children tr is not degenerate and holds p.
Holds(tree, tr, p) ==
    /\ TriangleArea(tree, tr) # 0
    /\ \A c \in 1..3 : Coordinates(tree, tr, p)[c] * TriangleArea(tree, tr) >= 0

Triples(n) == {tr \in (1..n) \X (1..n) \X (1..n) : tr[1] < tr[2] /\ tr[2] < tr[3]}

\* tr comes before other in declaration order.
Earlier(tr, other) ==
    \/ tr[1] < other[1]
    \/ tr[1] = other[1] /\ tr[2] < other[2]
    \/ tr[1] = other[1] /\ tr[2] = other[2] /\ tr[3] < other[3]

\* C24: after an update of a Directional2D tree of at least 3 children with
\* both parameters present, the first triple i < j < k in declaration order
\* whose triangle holds p carries p's barycentric coordinates as the
\* weights of i, j, k, and every other child weighs 0.
C24_ContainingTriangle ==
    [][(TreeStep /\ Is2D(TheTree) /\ Len(TheTree.motions) >= 3 /\ PointSeen) =>
          LET p == Point(The(Seen("x")), The(Seen("y")))
              n == Len(TheTree.motions)
          IN  \A tr \in Triples(n) :
                  (/\ Holds(TheTree, tr, p)
                   /\ \A other \in Triples(n) : Earlier(other, tr) => ~Holds(TheTree, other, p))
                  => /\ \A c \in 1..3 :
                            Is(WeightOf(TheTree', tr[c]), Coordinates(TheTree, tr, p)[c],
                               TriangleArea(TheTree, tr))
                     /\ \A k \in 1..n :
                            k \notin {tr[1], tr[2], tr[3]} => IsZero(WeightOf(TheTree', k))]_vars

\* An update of the square with p = (0.75, 0.75): the first triangle does
\* not hold p, the second (children 1, 2, 4) does, with coordinates
\* (0.25, 0, 0.75).
C24_Witness ==
    /\ IsUpdate
    /\ last.log[1].evaluated
    /\ Is2D(TheTree)
    /\ Len(TheTree.motions) = 4
    /\ get_float(last.log[1].seen, "x") = {3}
    /\ get_float(last.log[1].seen, "y") = {3}
    /\ Is(WeightOf(TheTree, 1), 1, 4)
    /\ IsZero(WeightOf(TheTree, 2))
    /\ IsZero(WeightOf(TheTree, 3))
    /\ Is(WeightOf(TheTree, 4), 3, 4)

\* The square of the distance from p to child k's threshold.
Apart(tree, k, p) ==
    (p.x - ThresholdOf(tree, k).x) * (p.x - ThresholdOf(tree, k).x)
    + (p.y - ThresholdOf(tree, k).y) * (p.y - ThresholdOf(tree, k).y)

\* C25: after an update of a Directional2D tree of at least 3 children with
\* both parameters present and no triangle holding p (all triangles may be
\* degenerate), the child nearest to p, the first in declaration order on a
\* tie, weighs 1 and every other child weighs 0.
C25_NearestFallback ==
    [][(TreeStep /\ Is2D(TheTree) /\ Len(TheTree.motions) >= 3 /\ PointSeen) =>
          LET p == Point(The(Seen("x")), The(Seen("y")))
              n == Len(TheTree.motions)
          IN  (\A tr \in Triples(n) : ~Holds(TheTree, tr, p)) =>
                  \E k \in 1..n :
                      /\ \A j \in 1..n : Apart(TheTree, k, p) <= Apart(TheTree, j, p)
                      /\ \A j \in 1..(k - 1) : Apart(TheTree, k, p) < Apart(TheTree, j, p)
                      /\ OnlyChild(TheTree', k)]_vars

\* An update of the tree whose children lie on a line, with p = (0.75, 0.25)
\* at the same distance from the second and the third child: the second
\* child weighs 1.
C25_Witness ==
    /\ IsUpdate
    /\ last.log[1].evaluated
    /\ Is2D(TheTree)
    /\ Len(TheTree.motions) = 3
    /\ \A tr \in Triples(3) : TriangleArea(TheTree, tr) = 0
    /\ get_float(last.log[1].seen, "x") = {3}
    /\ get_float(last.log[1].seen, "y") = {1}
    /\ Apart(TheTree, 2, Point(3, 1)) = Apart(TheTree, 3, Point(3, 1))
    /\ OnlyChild(TheTree, 2)

\* C26: after an update of a Directional2D tree of fewer than 3 children
\* with both parameters present the first child weighs 1 and every other
\* child weighs 0.
C26_FewChildren ==
    [][(TreeStep /\ Is2D(TheTree) /\ Len(TheTree.motions) < 3 /\ PointSeen) =>
          OnlyChild(TheTree', 1)]_vars

\* An update of the tree of two children with p = (1.25, 0.25), nearer to
\* the second child: the first child weighs 1.
C26_Witness ==
    /\ IsUpdate
    /\ last.log[1].evaluated
    /\ Is2D(TheTree)
    /\ Len(TheTree.motions) = 2
    /\ get_float(last.log[1].seen, "x") = {5}
    /\ get_float(last.log[1].seen, "y") = {1}
    /\ Apart(TheTree, 2, Point(5, 1)) < Apart(TheTree, 1, Point(5, 1))
    /\ OnlyChild(TheTree, 1)

\* w > 0.0
Positive(w) == w[2] # 0 /\ w[1] * w[2] > 0

\* C27: in an update of a tree that returns Ok, the children updated are
\* those whose weight, as this update assigned it, is greater than 0.
C27_UpdatedIffPositive ==
    [][(TreeStep /\ last'.res = "ok") =>
          last'.log[1].updated = {k \in 1..Len(TheTree.motions) : Positive(WeightOf(TheTree', k))}]_vars

---------------------------------------------------------------------------
\* Locks (SpecLock)

\* C30: an update that finds the lock of a shared child held by another
\* thread passes over the child and returns: no call of update waits for a
\* lock.
C30_UpdateNeverWaits == last.op = "update" => last.res # "blocked"

---------------------------------------------------------------------------
\* Sampling and the clock (SpecClock)

\* The state `name` of layer i, before and after the step.
StateOf(ls, i, name) == The(MapGet(ls[i].states, name))

\* r is the quotient (clock mod d) / d: clock = q * d + rest with
\* 0 <= rest < d, and r = rest / d.
IsWrapped(r, clock, d) ==
    \E q \in 0..clock :
        /\ q * d <= clock
        /\ clock < (q + 1) * d
        /\ Is(r, clock - q * d, d)

\* C28: an update of a layer invokes the sampler of the layer's current
\* state with the ratio (elapsed mod d) / d, which lies in [0, 1), whatever
\* the tick's delta and whatever updates came before.
C28_SampleRatio ==
    [][\A i \in 1..Len(layers) :
          (/\ last'.op = "update"
           /\ last'.log[i].evaluated
           /\ MapHas(layers[i].states, layers[i].current_state))
          => LET s == StateOf(layers', i, layers[i].current_state)
                 d == The(s.animation).duration
             IN  /\ IsWrapped(s.ratio, elapsed, d)
                 /\ 0 <= s.ratio[1]
                 /\ s.ratio[1] < s.ratio[2]]_vars

\* An update at elapsed = 2.5 seconds sampled the 2-second clip of the
\* current state at 0.25, as an update at 0.5 seconds does.
C28_Witness ==
    /\ IsUpdate
    /\ last.res = "ok"
    /\ elapsed = 5
    /\ last.dt = 0
    /\ \E i \in 1..Len(layers) :
          /\ last.log[i].evaluated
          /\ MapHas(layers[i].states, layers[i].current_state)
          /\ The(StateOf(layers, i, layers[i].current_state).animation).duration = 4
          /\ StateOf(layers, i, layers[i].current_state).ratio = <<1, 4>>

\* The step is an update that returns Ok, called right after an update
\* that returned Ok, with the same delta; the clock has not moved and the
\* host has not touched the store in between.
SecondOfTwo ==
    /\ last.op = "update" /\ last.res = "ok"
    /\ last'.op = "update" /\ last'.res = "ok"
    /\ last'.dt = last.dt

\* C29: the second of two updates in a row with the same dt and the same
\* elapsed clock publishes the joint lists the first one published, in
\* every reachable state of the controller, cross-fades included.
C29_SameListsAlways ==
    [][SecondOfTwo => (bone_trans' = bone_trans /\ spine_trans' = spine_trans)]_vars

\* No layer was in a transition, or fired one, in the update the history
\* holds (log), nor is or does in the step.
NoTransition ==
    \A i \in 1..Len(layers) :
        /\ ~last.log[i].was_transitioning /\ last.log[i].fired = 0
        /\ ~last'.log[i].was_transitioning /\ last'.log[i].fired = 0

\* C29 (amended): the same when no layer is in a transition, or fires one,
\* in either of the two updates.
C29_SameLists ==
    [][(SecondOfTwo /\ NoTransition) =>
          (bone_trans' = bone_trans /\ spine_trans' = spine_trans)]_vars

\* The second of two updates with delta 1 at elapsed = 0.5 seconds, both Ok
\* and without transition, on a controller that publishes a list.
C29_Witness ==
    /\ IsUpdate
    /\ last.res = "ok"
    /\ last.dt = 1
    /\ elapsed = 1
    /\ bone_trans # <<>>
    /\ blending_output = BlendRun(FinalEntries(layers, final_blending_job))
    /\ \A i \in 1..Len(layers) :
          /\ last.log[i].evaluated
          /\ ~last.log[i].was_transitioning
          /\ last.log[i].fired = 0
          /\ StateOf(layers, i, layers[i].current_state).ratio = <<1, 4>>

---------------------------------------------------------------------------
\* C31..C33: what holds of a layer between the calls of update

\* The flag and the option of layer l agree, and the next state is a key
\* of the state map.
Consistent(l) ==
    /\ l.is_transitioning <=> l.next_state # {}
    /\ l.next_state # {} => MapHas(l.states, The(l.next_state))

Within(l) == 0 <= l.transition_time /\ l.transition_time < l.transition_duration

\* The cross-fade layer l ran used t = transition_time / transition_duration
\* with t in [0, 1): its job holds the weights 1 - t and t, neither
\* negative, which sum to 1, and the duration it divided by is not zero.
FadedWithin(l) ==
    /\ l.transition_duration # 0
    /\ Len(l.blending_job) = 2
    /\ l.blending_job[2].weight = <<l.transition_time, l.transition_duration>>
    /\ l.blending_job[1].weight =
           <<l.transition_duration - l.transition_time, l.transition_duration>>
    /\ l.blending_job[2].weight[1] >= 0
    /\ l.blending_job[2].weight[1] < l.blending_job[2].weight[2]
    /\ l.blending_job[1].weight[1] > 0
    /\ l.blending_job[1].weight[1] + l.blending_job[2].weight[1] = l.transition_duration

DefaultPresent(l) == MapHas(l.states, l.default_state_name)

\* C33: a layer whose default state is present in the state map has, after
\* every update and every parameter change, a current_state that names a
\* state present in the map; and a step that changes current_state, in any
\* layer, moves it to a state present in the map.
C33_CurrentPresent ==
    [][\A i \in 1..Len(layers') :
          /\ DefaultPresent(layers'[i]) => MapHas(layers'[i].states, layers'[i].current_state)
          /\ (i <= Len(layers) /\ layers'[i].current_state # layers[i].current_state)
                 => MapHas(layers'[i].states, layers'[i].current_state)]_vars

\* An update has completed a transition of a layer whose default state is
\* present: its current state is another state of the map.
C33_Witness ==
    /\ IsUpdate
    /\ last.res = "ok"
    /\ \E i \in 1..Len(layers) :
           /\ DefaultPresent(layers[i])
           /\ layers[i].current_state # layers[i].default_state_name
           /\ ~layers[i].is_transitioning
           /\ MapHas(layers[i].states, layers[i].current_state)

---------------------------------------------------------------------------
\* C34: the cross-fades of a host that keeps ticking

\* The names of the states the host adds to its layers.
StateNames == {"A", "B", "C"}

\* The positions of the layers of the controllers of LiveConfigs.
LivePositions == {1, 2}

\* Layer i is in a transition towards the state s.
FadingTo(i, s) ==
    i <= Len(layers) /\ layers[i].is_transitioning /\ layers[i].next_state = {s}

\* Layer i has arrived in the state s.
ArrivedAt(i, s) ==
    i <= Len(layers) /\ ~layers[i].is_transitioning /\ layers[i].current_state = s

\* A tick of delta 0 leaves every transition of positive duration, fired
\* earlier or in this tick, where it was.
ZeroTickStalls ==
    (IsUpdate' /\ last'.dt = 0) =>
        \A i \in 1..Len(layers) :
            (\/ layers[i].next_state # {} /\ Within(layers[i])
             \/ last'.log[i].fired # 0 /\ layers'[i].transition_duration > 0)
            => /\ layers'[i].is_transitioning
               /\ layers'[i].next_state # {}
               /\ layers'[i].current_state = layers[i].current_state
               /\ layers'[i].transition_time = 0 \/ layers'[i].transition_time = layers[i].transition_time

\* C34: under a host that keeps ticking with frames of positive delta that
\* do not fail, every transition that fires eventually completes: the
\* layer eventually is not transitioning with current equal to the fired
\* transition's target.  A tick with dt = 0 never completes a transition of
\* positive duration.
C34_CrossFadeCompletes ==
    /\ \A i \in LivePositions : \A s \in StateNames : FadingTo(i, s) ~> ArrivedAt(i, s)
    /\ [][ZeroTickStalls]_vars

\* A transition of positive duration has completed in a tick shorter than
\* its duration: it took more than one tick.
C34_Witness ==
    /\ IsUpdate
    /\ last.res = "ok"
    /\ \E i \in 1..Len(layers) :
           /\ ~layers[i].is_transitioning
           /\ layers[i].current_state # layers[i].default_state_name
           /\ layers[i].transition_duration > last.dt
           /\ last.dt > 0
           /\ layers[i].transition_time >= layers[i].transition_duration

---------------------------------------------------------------------------
\* C35: the weights a blend tree's update leaves (SpecTree)

\* 0.0 <= w <= 1.0
InUnit(w) == w[2] > 0 /\ 0 <= w[1] /\ w[1] <= w[2]

\* The weights of the tree's children are in [0, 1] and sum to 1.
Normalised(tree) ==
    /\ \A k \in 1..Len(tree.blend_job) : InUnit(WeightOf(tree, k))
    /\ SameFraction(WeightSum([k \in 1..Len(tree.blend_job) |-> WeightOf(tree, k)],
                              Len(tree.blend_job)),
                    One)

\* The thresholds of a Simple1D tree do not decrease from child to child.
Sorted(tree) ==
    \A k \in 1..(Len(tree.motions) - 1) : ThresholdOf(tree, k).x <= ThresholdOf(tree, k + 1).x

\* C35: after an update of a tree that has at least one child and whose
\* driving parameters are present, every child weight is in [0, 1] and the
\* weights sum to 1, for a Simple1D tree with sorted thresholds and for a
\* Directional2D tree, whatever values were set earlier.
C35_WeightsNormalised ==
    [][(TreeStep /\ ~DriverAbsent(TheTree) /\ Len(TheTree.motions) >= 1
            /\ (Is1D(TheTree) => Sorted(TheTree)))
          => Normalised(TheTree')]_vars

---------------------------------------------------------------------------
\* C36: the parameter store across an update (SpecStore)

\* The update got past the loop over the layers, to reset_triggers.
LoopDone(h) == h.res = "ok" \/ h.err = {<<0, "final">>}

\* C36: over a controller update the bool, float and int values of the
\* store are the same after as before; every layer whose update ran was
\* lent the store as it was at the call; and the triggers are either all
\* cleared (the update got to reset_triggers) or as they were.
C36_StoreOnlyLosesTriggers ==
    [][(last'.op = "update" /\ last'.res # "blocked") =>
          /\ parameters'.bools = parameters.bools
          /\ parameters'.floats = parameters.floats
          /\ parameters'.ints = parameters.ints
          /\ \A i \in 1..Len(layers) : last'.log[i].evaluated => last'.log[i].seen = parameters
          /\ parameters'.triggers = IF LoopDone(last') THEN {} ELSE parameters.triggers]_vars

\* An update of a controller with a blend tree returned Ok: the layers saw
\* a trigger that is now cleared, a child of the tree was updated, and the
\* store still holds its bool, floats and int.
C36_Witness ==
    /\ IsUpdate
    /\ last.res = "ok"
    /\ parameters.triggers = {}
    /\ parameters.bools # {} /\ parameters.floats # {} /\ parameters.ints # {}
    /\ \E i \in 1..Len(layers) :
           /\ last.log[i].seen.triggers # {}
           /\ last.log[i].seen.bools = parameters.bools
           /\ last.log[i].seen.floats = parameters.floats
           /\ last.log[i].seen.ints = parameters.ints
           /\ last.log[i].updated # {}

====
